---- MODULE Spec2Model ----
(***************************************************************************)
(* Booking lifecycle engine of the marketplace backend: BookingsService    *)
(* (createBooking, assignBookingToUser, updateBookingStatus,               *)
(* cancelBooking, the provider listings, getBookingById), the relational   *)
(* rows it reads and writes, and the pricing arithmetic of createBooking.  *)
(* Money is counted in cents (the schema columns are DECIMAL(8,2)).        *)
(***************************************************************************)
EXTENDS Integers, Sequences, FiniteSets, TLC

(***************************************************************************)
(* IEEE-754 double arithmetic.  createBooking prices with JavaScript       *)
(* numbers: Number(basePrice), +, * 0.125.  A double is a record           *)
(* [m, e] standing for m * 2^e, where m is a natural number of exactly     *)
(* MantBits bits written as a sequence of limbs in base LimbBase, most     *)
(* significant first; Zero has the empty mantissa.                         *)
(***************************************************************************)
MantBits == 53

LimbBase == 2 ^ 14

\* a quotient n * 2^DivShift / d with d < 2^8 has more than MantBits + 1 bits
DivShift == MantBits + 17

Zeros(n) == [i \in 1..n |-> 0]

RECURSIVE Pow2(_)
Pow2(n) == IF n = 0 THEN 1 ELSE 2 * Pow2(n - 1)

RECURSIVE BitLenNat(_)
BitLenNat(n) == IF n = 0 THEN 0 ELSE 1 + BitLenNat(n \div 2)

LimbBits == BitLenNat(LimbBase) - 1

RECURSIVE LimbsOfNat(_)
LimbsOfNat(n) ==
  IF n = 0 THEN <<>> ELSE Append(LimbsOfNat(n \div LimbBase), n % LimbBase)

RECURSIVE NatOfLimbs(_)
NatOfLimbs(b) ==
  IF b = <<>> THEN 0
  ELSE LimbBase * NatOfLimbs(SubSeq(b, 1, Len(b) - 1)) + b[Len(b)]

RECURSIVE Strip(_)
Strip(b) == IF b # <<>> /\ b[1] = 0 THEN Strip(Tail(b)) ELSE b

AnyNonZero(b) == \E i \in 1..Len(b) : b[i] # 0

BitLen(b) == IF b = <<>> THEN 0 ELSE LimbBits * (Len(b) - 1) + BitLenNat(b[1])

\* long division of the number b by the small number d
RECURSIVE DivStep(_, _, _, _, _)
DivStep(b, d, i, rem, q) ==
  IF i > Len(b) THEN [q |-> Strip(q), r |-> rem]
  ELSE DivStep(b, d, i + 1, (rem * LimbBase + b[i]) % d,
               Append(q, (rem * LimbBase + b[i]) \div d))

DivSmall(b, d) == DivStep(b, d, 1, 0, <<>>)

\* product of the number b and the small number k
RECURSIVE MulStep(_, _, _, _, _)
MulStep(b, k, i, carry, acc) ==
  IF i = 0 THEN Strip(<<carry>> \o acc)
  ELSE MulStep(b, k, i - 1, (b[i] * k + carry) \div LimbBase,
               <<(b[i] * k + carry) % LimbBase>> \o acc)

MulSmall(b, k) == MulStep(b, k, Len(b), 0, <<>>)

\* sum of two numbers written with the same count of limbs
RECURSIVE AddStep(_, _, _, _, _)
AddStep(a, b, i, carry, acc) ==
  IF i = 0 THEN Strip(<<carry>> \o acc)
  ELSE AddStep(a, b, i - 1, (a[i] + b[i] + carry) \div LimbBase,
               <<(a[i] + b[i] + carry) % LimbBase>> \o acc)

LimbsAdd(a, b) ==
  LET n  == IF Len(a) > Len(b) THEN Len(a) ELSE Len(b)
      pa == Zeros(n - Len(a)) \o a
      pb == Zeros(n - Len(b)) \o b
  IN  AddStep(pa, pb, n, 0, <<>>)

\* b * 2^s
ShiftLeft(b, s) ==
  IF b = <<>> THEN b
  ELSE MulSmall(b \o Zeros(s \div LimbBits), Pow2(s % LimbBits))

\* floor(b / 2^s), and whether a nonzero part was dropped
Shifted(qr, lost) == [v |-> qr.q, sticky |-> (qr.r # 0 \/ AnyNonZero(lost))]

ShiftRight(b, s) ==
  LET whole == s \div LimbBits
  IN  Shifted(DivSmall(IF whole >= Len(b) THEN <<>> ELSE SubSeq(b, 1, Len(b) - whole),
                       Pow2(s % LimbBits)),
              IF whole >= Len(b) THEN b ELSE SubSeq(b, Len(b) - whole + 1, Len(b)))

Zero == [m |-> <<>>, e |-> 0]

\* a mantissa that gained a bit by the carry of the rounding loses its last bit
Renormalize(m, e) ==
  IF BitLen(m) > MantBits THEN [m |-> DivSmall(m, 2).q, e |-> e + 1]
  ELSE [m |-> m, e |-> e]

\* half.q is the mantissa, half.r the guard bit, rest the bits below the guard
RoundHalf(half, e, rest) ==
  Renormalize(IF half.r = 1 /\ (rest \/ half.q[Len(half.q)] % 2 = 1)
              THEN LimbsAdd(half.q, <<1>>) ELSE half.q,
              e)

Narrow(sr, e, sticky) == RoundHalf(DivSmall(sr.v, 2), e, sticky \/ sr.sticky)

Widen(bits, e, k) == [m |-> ShiftLeft(bits, k), e |-> e - k]

\* round-to-nearest, ties-to-even, of bits * 2^e (plus a nonzero tail when sticky)
RoundNearestEven(bits, e, sticky) ==
  IF bits = <<>> THEN Zero
  ELSE IF BitLen(bits) <= MantBits THEN Widen(bits, e, MantBits - BitLen(bits))
  ELSE Narrow(ShiftRight(bits, BitLen(bits) - MantBits - 1),
              e + (BitLen(bits) - MantBits), sticky)

RoundQuotient(qr) == RoundNearestEven(qr.q, 0 - DivShift, qr.r # 0)

\* the double nearest to the fraction n / d
FlDiv(n, d) ==
  IF n = 0 THEN Zero
  ELSE RoundQuotient(DivSmall(ShiftLeft(LimbsOfNat(n), DivShift), d))

FlAdd(x, y) ==
  IF x.m = <<>> THEN y
  ELSE IF y.m = <<>> THEN x
  ELSE LET e == IF x.e < y.e THEN x.e ELSE y.e
       IN  RoundNearestEven(LimbsAdd(ShiftLeft(x.m, x.e - e), ShiftLeft(y.m, y.e - e)),
                            e, FALSE)

\* x * 0.125: 0.125 = 2^-3 is a double, the product is exact
FlTimesEighth(x) == IF x.m = <<>> THEN x ELSE [x EXCEPT !.e = @ - 3]

RECURSIVE LimbsLeq(_, _, _)
LimbsLeq(a, b, i) ==
  IF i > Len(a) THEN TRUE
  ELSE IF a[i] # b[i] THEN a[i] < b[i]
  ELSE LimbsLeq(a, b, i + 1)

FlLeq(x, y) ==
  IF x.m = <<>> THEN TRUE
  ELSE IF y.m = <<>> THEN FALSE
  ELSE IF x.e # y.e THEN x.e < y.e
  ELSE LimbsLeq(x.m, y.m, 1)

FloorScaled(p, e) ==
  IF e >= 0 THEN NatOfLimbs(ShiftLeft(p, e)) ELSE NatOfLimbs(ShiftRight(p, 0 - e).v)

\* floor(x * k) for a double x below 2^31 / k
FlFloorTimes(x, k) == IF x.m = <<>> THEN 0 ELSE FloorScaled(MulSmall(x.m, k), x.e)

(***************************************************************************)
(* A JavaScript number written to a DECIMAL(8,2) column.  The client sends *)
(* the shortest decimal that reads back as the double; the database rounds *)
(* it half away from zero to two places.  A half-cent boundary             *)
(* (2c-1)/200 is itself that shortest decimal exactly for the double       *)
(* nearest to it, so the stored cents are c when                           *)
(* fl((2c-1)/200) <= x < fl((2c+1)/200).                                   *)
(***************************************************************************)
NearestCents(x, c) ==
  IF FlLeq(FlDiv(2 * c + 1, 200), x) THEN c + 1
  ELSE IF c = 0 \/ FlLeq(FlDiv(2 * c - 1, 200), x) THEN c
  ELSE c - 1

DecimalStore(x) == NearestCents(x, (FlFloorTimes(x, 200) + 1) \div 2)

\* Number(service.basePrice) of a price column holding `cents`
NumberOfPrice(cents) == FlDiv(cents, 100)

\* services.reduce((sum, service) => sum + Number(service.basePrice), 0)
RECURSIVE SumPrices(_)
SumPrices(prices) ==
  IF prices = <<>> THEN Zero
  ELSE FlAdd(SumPrices(SubSeq(prices, 1, Len(prices) - 1)),
             NumberOfPrice(prices[Len(prices)]))

\* taxAmount = subtotal * 0.125
TaxOf(subtotal) == FlTimesEighth(subtotal)

\* totalAmount = subtotal + taxAmount
TotalOf(subtotal, taxAmount) == FlAdd(subtotal, taxAmount)

AmountsOf(subtotal, taxAmount) ==
  [subtotal |-> subtotal, taxAmount |-> taxAmount,
   totalAmount |-> TotalOf(subtotal, taxAmount)]

TaxedAmounts(subtotal) == AmountsOf(subtotal, TaxOf(subtotal))

\* the three amounts of createBooking for the priced services, as doubles
Pricing(prices) == TaxedAmounts(SumPrices(prices))

StoredAmounts(p) ==
  [subtotal    |-> DecimalStore(p.subtotal),
   taxAmount   |-> DecimalStore(p.taxAmount),
   totalAmount |-> DecimalStore(p.totalAmount)]

\* the amounts as the booking row holds (and createBooking returns) them
StoredPricing(prices) == StoredAmounts(Pricing(prices))
(***************************************************************************)
(* The relational state.                                                   *)
(***************************************************************************)
VARIABLES users, providerUsers, providerLocations, services,
          bookings, bookingItems, nextId, calls, sinkLog, resp

vars == <<users, providerUsers, providerLocations, services,
          bookings, bookingItems, nextId, calls, sinkLog, resp>>

\* null / undefined / an absent optional field
None == "none"

AllUsers == {"u1", "u2", "u3", "u4"}

\* an id that is well formed but names no row
GhostUser == "u0"

Providers == {"p1", "p2"}

Locations == {"l1", "l2"}

ServiceIds == {"s1", "s2", "s3", "s4"}

GuestEmails == {"a@b.com", "wrong@b.com"}

Statuses == {"PENDING", "CONFIRMED", "COMPLETED", "CANCELLED", "NO_SHOW"}

\* the concurrent createBooking requests
Clients == {"c1"}

InitProviderUsers ==
  { [id |-> "m1", providerId |-> "p1", userId |-> "u1",
     isOwner |-> TRUE, isActive |-> TRUE, canManageBookings |-> FALSE,
     canManageServices |-> FALSE, canManageLocations |-> FALSE],
    [id |-> "m2", providerId |-> "p1", userId |-> "u2",
     isOwner |-> FALSE, isActive |-> TRUE, canManageBookings |-> TRUE,
     canManageServices |-> TRUE, canManageLocations |-> TRUE],
    [id |-> "m3", providerId |-> "p1", userId |-> "u3",
     isOwner |-> FALSE, isActive |-> TRUE, canManageBookings |-> FALSE,
     canManageServices |-> FALSE, canManageLocations |-> FALSE],
    [id |-> "m4", providerId |-> "p1", userId |-> "u4",
     isOwner |-> TRUE, isActive |-> FALSE, canManageBookings |-> TRUE,
     canManageServices |-> TRUE, canManageLocations |-> TRUE],
    [id |-> "m5", providerId |-> "p2", userId |-> "u3",
     isOwner |-> TRUE, isActive |-> TRUE, canManageBookings |-> TRUE,
     canManageServices |-> FALSE, canManageLocations |-> FALSE] }

InitProviderLocations ==
  { [providerId |-> "p1", locationId |-> "l1", isActive |-> TRUE],
    [providerId |-> "p1", locationId |-> "l2", isActive |-> FALSE],
    [providerId |-> "p2", locationId |-> "l2", isActive |-> TRUE] }

InitServices ==
  [s \in ServiceIds |->
     CASE s = "s1" -> [providerId |-> "p1", isActive |-> TRUE,  basePrice |-> 150000]
       [] s = "s2" -> [providerId |-> "p1", isActive |-> TRUE,  basePrice |-> 80000]
       [] s = "s3" -> [providerId |-> "p1", isActive |-> FALSE, basePrice |-> 36]
       [] s = "s4" -> [providerId |-> "p2", isActive |-> TRUE,  basePrice |-> 36]]

\* CreateBookingDto
NoDto == [customerId |-> None, guestInfo |-> None, providerId |-> None,
          locationId |-> None, assignedUserId |-> None, providerUserId |-> None,
          startTime |-> 0, endTime |-> 0, serviceIds |-> <<>>,
          customerNotes |-> None]

\* a row of table bookings; id 0 stands for no row
NoRow == [id |-> 0, customerId |-> None, providerId |-> None,
          assignedUserId |-> None, providerUserId |-> None, locationId |-> None,
          startTime |-> 0, endTime |-> 0,
          subtotal |-> 0, taxAmount |-> 0, totalAmount |-> 0,
          customerNotes |-> None, providerNotes |-> None, status |-> "PENDING",
          isGuestBooking |-> FALSE, guestEmail |-> None]

\* a createBooking request in flight: where it stands, what it read, and
\* the rows its open transaction has written but not committed
IdleCall == [pc |-> "idle", dto |-> NoDto, found |-> <<>>, row |-> NoRow,
             items |-> {}, pending |-> {}]

\* the response of the step just taken: the operation, its HTTP status and
\* what it returns; NoResp after a step that answers nobody
NoResp == [op |-> "none", code |-> 0, error |-> None, rows |-> {}, items |-> {},
           list |-> <<>>, page |-> 0, limit |-> 0, total |-> 0, totalPages |-> 0]

Init ==
  /\ users = AllUsers
  /\ providerUsers = InitProviderUsers
  /\ providerLocations = InitProviderLocations
  /\ services = InitServices
  /\ bookings = <<>>
  /\ bookingItems = {}
  /\ nextId = 1
  /\ calls = [c \in Clients |-> IdleCall]
  /\ sinkLog = <<>>
  /\ resp = NoResp

Range(f) == {f[i] : i \in DOMAIN f}

\* prisma.providerUser.findFirst({ where: { providerId, userId, isActive: true } })
FindActiveProviderUser(providerId, userId) ==
  {pu \in providerUsers :
     pu.providerId = providerId /\ pu.userId = userId /\ pu.isActive}

\* prisma.providerLocation.findFirst({ where: { providerId, locationId, isActive: true } })
FindActiveProviderLocation(providerId, locationId) ==
  {pl \in providerLocations :
     pl.providerId = providerId /\ pl.locationId = locationId /\ pl.isActive}

\* prisma.service.findMany({ where: { id: { in: serviceIds }, providerId, isActive: true } })
FindActiveServices(serviceIds, providerId) ==
  {s \in DOMAIN services :
     /\ s \in Range(serviceIds)
     /\ services[s].providerId = providerId
     /\ services[s].isActive}

\* the orders in which a query without orderBy may return the rows of S
Orderings(S) ==
  {q \in [1..Cardinality(S) -> S] : \A i, j \in DOMAIN q : i # j => q[i] # q[j]}

ItemsOf(id) == {it \in bookingItems : it.bookingId = id}

Reply(op, code) == [NoResp EXCEPT !.op = op, !.code = code]

(***************************************************************************)
(* BookingsService.createBooking.  Its awaits make it a sequence of steps: *)
(* the validating reads and the pricing, then inside prisma.$transaction   *)
(* the booking insert and the item inserts, the commit, and the awaited    *)
(* notification.  Rows written inside the transaction stay in calls[c]     *)
(* until the commit publishes them all at once.                            *)
(***************************************************************************)
Reject(c, code, error) ==
  /\ resp' = [Reply("createBooking", code) EXCEPT !.error = error]
  /\ calls' = [calls EXCEPT ![c] = IdleCall]
  /\ UNCHANGED <<users, providerUsers, providerLocations, services,
                 bookings, bookingItems, nextId, sinkLog>>

\* checks that would stop before the services are counted
ValidateCreateWithoutCount(dto) ==
  IF dto.customerId = None /\ dto.guestInfo = None THEN "neither"
  ELSE IF dto.customerId # None /\ dto.guestInfo # None THEN "both"
  ELSE IF dto.customerId # None /\ dto.customerId \notin users THEN "customer"
  ELSE IF FindActiveProviderLocation(dto.providerId, dto.locationId) = {} THEN "location"
  ELSE IF /\ dto.assignedUserId # None
          /\ FindActiveProviderUser(dto.providerId, dto.assignedUserId) = {}
       THEN "assignedUser"
  ELSE IF /\ dto.providerUserId # None
          /\ ~ \E pu \in providerUsers :
                 pu.id = dto.providerUserId /\ pu.providerId = dto.providerId
       THEN "providerUser"
  ELSE "ok"

\* the checks of lines 26-97, in the order of the code; "ok" when all pass
ValidateCreate(dto) ==
  IF dto.customerId = None /\ dto.guestInfo = None THEN "neither"
  ELSE IF dto.customerId # None /\ dto.guestInfo # None THEN "both"
  ELSE IF dto.customerId # None /\ dto.customerId \notin users THEN "customer"
  ELSE IF FindActiveProviderLocation(dto.providerId, dto.locationId) = {} THEN "location"
  ELSE IF /\ dto.assignedUserId # None
          /\ FindActiveProviderUser(dto.providerId, dto.assignedUserId) = {}
       THEN "assignedUser"
  ELSE IF /\ dto.providerUserId # None
          /\ ~ \E pu \in providerUsers :
                 pu.id = dto.providerUserId /\ pu.providerId = dto.providerId
       THEN "providerUser"
  ELSE IF Cardinality(FindActiveServices(dto.serviceIds, dto.providerId))
            # Len(dto.serviceIds)
       THEN "services"
  ELSE "ok"

CreateBookingValidate(c, dto) ==
  /\ calls[c].pc = "idle"
  /\ IF ValidateCreate(dto) # "ok"
     THEN Reject(c, 400, ValidateCreate(dto))
     ELSE /\ \E order \in Orderings(FindActiveServices(dto.serviceIds, dto.providerId)) :
               calls' = [calls EXCEPT ![c] =
                 [IdleCall EXCEPT
                    !.pc = "tx", !.dto = dto,
                    !.found = [i \in DOMAIN order |->
                                 [id |-> order[i],
                                  basePrice |-> services[order[i]].basePrice]]]]
          /\ resp' = NoResp
          /\ UNCHANGED <<users, providerUsers, providerLocations, services,
                         bookings, bookingItems, nextId, sinkLog>>

\* the foreign keys of table bookings, checked when the row is inserted
BookingForeignKeysHold(dto) ==
  /\ dto.customerId # None => dto.customerId \in users
  /\ dto.assignedUserId # None => dto.assignedUserId \in users
  /\ dto.providerUserId # None => \E pu \in providerUsers : pu.id = dto.providerUserId

\* the data of tx.booking.create, as the row stores it
BookingRow(id, dto, p) ==
  [id |-> id,
   customerId |-> dto.customerId,
   providerId |-> dto.providerId,
   assignedUserId |-> dto.assignedUserId,
   providerUserId |-> dto.providerUserId,
   locationId |-> dto.locationId,
   startTime |-> dto.startTime,
   endTime |-> dto.endTime,
   subtotal |-> p.subtotal,
   taxAmount |-> p.taxAmount,
   totalAmount |-> p.totalAmount,
   customerNotes |-> dto.customerNotes,
   providerNotes |-> None,
   status |-> "PENDING",
   isGuestBooking |-> (dto.guestInfo # None),
   guestEmail |-> IF dto.guestInfo # None THEN dto.guestInfo ELSE None]

NewBookingRow(id, dto, found) ==
  BookingRow(id, dto, StoredPricing([i \in DOMAIN found |-> found[i].basePrice]))

\* a failure that would leave the writes made so far in place
RollbackLeavesWrites(c) ==
  /\ calls' = [calls EXCEPT ![c] = IdleCall]
  /\ resp' = Reply("createBooking", 500)
  /\ bookings' = IF calls[c].row.id # 0
                 THEN bookings @@ (calls[c].row.id :> calls[c].row)
                 ELSE bookings
  /\ bookingItems' = bookingItems \cup calls[c].items
  /\ UNCHANGED <<users, providerUsers, providerLocations, services, nextId, sinkLog>>

\* the transaction is rolled back and the error leaves createBooking
Rollback(c) ==
  /\ calls' = [calls EXCEPT ![c] = IdleCall]
  /\ resp' = Reply("createBooking", 500)
  /\ UNCHANGED <<users, providerUsers, providerLocations, services,
                 bookings, bookingItems, nextId, sinkLog>>

\* tx.booking.create
TxCreateBooking(c) ==
  /\ calls[c].pc = "tx"
  /\ IF ~ BookingForeignKeysHold(calls[c].dto)
     THEN Rollback(c)
     ELSE /\ calls' = [calls EXCEPT
                 ![c].pc = "items",
                 ![c].row = NewBookingRow(nextId, calls[c].dto, calls[c].found),
                 ![c].pending = DOMAIN calls[c].found]
          /\ nextId' = nextId + 1
          /\ resp' = NoResp
          /\ UNCHANGED <<users, providerUsers, providerLocations, services,
                         bookings, bookingItems, sinkLog>>

\* the storage layer fails the booking insert
TxCreateBookingFails(c) ==
  /\ calls[c].pc = "tx"
  /\ Rollback(c)

\* an item insert after which the remaining services get no item
TxCreateItemSkipsRest(c, i) ==
  /\ calls[c].pc = "items"
  /\ i \in calls[c].pending
  /\ calls' = [calls EXCEPT
       ![c].pending = {},
       ![c].items = @ \cup {[bookingId |-> calls[c].row.id,
                             serviceId |-> calls[c].found[i].id,
                             unitPrice |-> calls[c].found[i].basePrice,
                             total |-> calls[c].found[i].basePrice]}]
  /\ resp' = NoResp
  /\ UNCHANGED <<users, providerUsers, providerLocations, services,
                 bookings, bookingItems, nextId, sinkLog>>

\* one of the tx.bookingItem.create calls under Promise.all completes
TxCreateItem(c, i) ==
  /\ calls[c].pc = "items"
  /\ i \in calls[c].pending
  /\ calls' = [calls EXCEPT
       ![c].pending = @ \ {i},
       ![c].items = @ \cup {[bookingId |-> calls[c].row.id,
                             serviceId |-> calls[c].found[i].id,
                             unitPrice |-> calls[c].found[i].basePrice,
                             total |-> calls[c].found[i].basePrice]}]
  /\ resp' = NoResp
  /\ UNCHANGED <<users, providerUsers, providerLocations, services,
                 bookings, bookingItems, nextId, sinkLog>>

\* one of the item inserts fails: Promise.all rejects, the callback throws
TxCreateItemFails(c, i) ==
  /\ calls[c].pc = "items"
  /\ i \in calls[c].pending
  /\ Rollback(c)

\* the callback returned { ...newBooking, items }: the transaction commits
TxCommit(c) ==
  /\ calls[c].pc = "items"
  /\ calls[c].pending = {}
  /\ bookings' = bookings @@ (calls[c].row.id :> calls[c].row)
  /\ bookingItems' = bookingItems \cup calls[c].items
  /\ calls' = [calls EXCEPT ![c].pc = "notify"]
  /\ resp' = NoResp
  /\ UNCHANGED <<users, providerUsers, providerLocations, services, nextId, sinkLog>>

\* a createBooking that would call the sink twice
NotifyTwice(c, delivered) ==
  /\ calls[c].pc = "notify"
  /\ IF delivered
     THEN /\ sinkLog' = Append(Append(sinkLog, calls[c].row.id), calls[c].row.id)
          /\ resp' = [Reply("createBooking", 201)
                        EXCEPT !.rows = {calls[c].row}, !.items = calls[c].items]
     ELSE /\ sinkLog' = sinkLog
          /\ resp' = Reply("createBooking", 500)
  /\ calls' = [calls EXCEPT ![c] = IdleCall]
  /\ UNCHANGED <<users, providerUsers, providerLocations, services,
                 bookings, bookingItems, nextId>>

\* await notificationsService.sendBookingConfirmation(booking.id); return booking
Notify(c, delivered) ==
  /\ calls[c].pc = "notify"
  /\ IF delivered
     THEN /\ sinkLog' = Append(sinkLog, calls[c].row.id)
          /\ resp' = [Reply("createBooking", 201)
                        EXCEPT !.rows = {calls[c].row}, !.items = calls[c].items]
     ELSE /\ sinkLog' = sinkLog
          /\ resp' = Reply("createBooking", 500)
  /\ calls' = [calls EXCEPT ![c] = IdleCall]
  /\ UNCHANGED <<users, providerUsers, providerLocations, services,
                 bookings, bookingItems, nextId>>
(***************************************************************************)
(* Reads of the committed rows.                                            *)
(***************************************************************************)
\* a read that would not compare the supplied email
GetBookingByIdAnyEmail(id, email) ==
  /\ resp' =
       IF id \notin DOMAIN bookings
       THEN Reply("getBookingById", 400)
       ELSE [Reply("getBookingById", 200)
               EXCEPT !.rows = {bookings[id]}, !.items = ItemsOf(id)]
  /\ UNCHANGED <<users, providerUsers, providerLocations, services,
                 bookings, bookingItems, nextId, calls, sinkLog>>

\* BookingsService.getBookingById(bookingId, email?)
GetBookingById(id, email) ==
  /\ resp' =
       IF id \notin DOMAIN bookings
       THEN Reply("getBookingById", 400)
       ELSE IF /\ bookings[id].isGuestBooking
               /\ email # None
               /\ bookings[id].guestEmail # email
       THEN Reply("getBookingById", 403)
       ELSE [Reply("getBookingById", 200)
               EXCEPT !.rows = {bookings[id]}, !.items = ItemsOf(id)]
  /\ UNCHANGED <<users, providerUsers, providerLocations, services,
                 bookings, bookingItems, nextId, calls, sinkLog>>

(***************************************************************************)
(* UsersService.remove: prisma.user.delete; the foreign keys of the schema *)
(* cascade to provider_users and set bookings' references to NULL.  A      *)
(* delete waits for an open transaction whose uncommitted booking row      *)
(* references the user.                                                    *)
(***************************************************************************)
UsersRemove(u) ==
  IF u \notin users
  THEN /\ resp' = Reply("usersRemove", 404)
       /\ UNCHANGED <<users, providerUsers, providerLocations, services,
                      bookings, bookingItems, nextId, calls, sinkLog>>
  ELSE /\ \A c \in Clients :
            calls[c].row.id # 0 =>
              /\ calls[c].row.customerId # u
              /\ calls[c].row.assignedUserId # u
              /\ \A pu \in providerUsers :
                   pu.id = calls[c].row.providerUserId => pu.userId # u
       /\ users' = users \ {u}
       /\ providerUsers' = {pu \in providerUsers : pu.userId # u}
       /\ bookings' =
            [id \in DOMAIN bookings |->
               [bookings[id] EXCEPT
                  !.customerId = IF @ = u THEN None ELSE @,
                  !.assignedUserId = IF @ = u THEN None ELSE @,
                  !.providerUserId =
                     IF \E pu \in providerUsers : pu.id = @ /\ pu.userId = u
                     THEN None ELSE @]]
       /\ resp' = Reply("usersRemove", 200)
       /\ UNCHANGED <<providerLocations, services, bookingItems, nextId, calls, sinkLog>>

(***************************************************************************)
(* The operations on an existing booking.  Each is a read of the row, a    *)
(* read of the caller's membership, and one update.                        *)
(***************************************************************************)
Unchanged(op, code) ==
  /\ resp' = Reply(op, code)
  /\ UNCHANGED <<users, providerUsers, providerLocations, services,
                 bookings, bookingItems, nextId, calls, sinkLog>>

\* prisma.booking.update({ where: { id }, data }) and the row it returns
UpdateRow(op, id, row) ==
  /\ bookings' = [bookings EXCEPT ![id] = row]
  /\ resp' = [Reply(op, 200) EXCEPT !.rows = {row}, !.items = ItemsOf(id)]
  /\ UNCHANGED <<users, providerUsers, providerLocations, services,
                 bookingItems, nextId, calls, sinkLog>>

\* !requestingProviderUser?.canManageBookings && !requestingProviderUser?.isOwner
LacksManageRight(providerId, userId) ==
  LET found == FindActiveProviderUser(providerId, userId)
  IN  /\ ~ \E pu \in found : pu.canManageBookings
      /\ ~ \E pu \in found : pu.isOwner

\* an assignment that would not look the target's membership up
AssignBookingToUserAnyTarget(id, assignedUserId, requestingUserId) ==
  IF id \notin DOMAIN bookings
  THEN Unchanged("assign", 400)
  ELSE IF LacksManageRight(bookings[id].providerId, requestingUserId)
  THEN Unchanged("assign", 403)
  ELSE UpdateRow("assign", id,
                 [bookings[id] EXCEPT !.assignedUserId = assignedUserId])

\* an assignment that would confirm the booking as well
AssignBookingToUserConfirms(id, assignedUserId, requestingUserId) ==
  IF id \notin DOMAIN bookings
  THEN Unchanged("assign", 400)
  ELSE IF LacksManageRight(bookings[id].providerId, requestingUserId)
  THEN Unchanged("assign", 403)
  ELSE IF FindActiveProviderUser(bookings[id].providerId, assignedUserId) = {}
  THEN Unchanged("assign", 400)
  ELSE UpdateRow("assign", id,
                 [bookings[id] EXCEPT !.assignedUserId = assignedUserId,
                                      !.status = "CONFIRMED"])

\* BookingsService.assignBookingToUser(bookingId, assignedUserId, requestingUserId)
AssignBookingToUser(id, assignedUserId, requestingUserId) ==
  IF id \notin DOMAIN bookings
  THEN Unchanged("assign", 400)
  ELSE IF LacksManageRight(bookings[id].providerId, requestingUserId)
  THEN Unchanged("assign", 403)
  ELSE IF FindActiveProviderUser(bookings[id].providerId, assignedUserId) = {}
  THEN Unchanged("assign", 400)
  ELSE UpdateRow("assign", id,
                 [bookings[id] EXCEPT !.assignedUserId = assignedUserId])

\* a status change that would accept any active member
UpdateBookingStatusAnyMember(id, userId, dto) ==
  IF id \notin DOMAIN bookings
  THEN Unchanged("setStatus", 404)
  ELSE IF FindActiveProviderUser(bookings[id].providerId, userId) = {}
  THEN Unchanged("setStatus", 403)
  ELSE UpdateRow("setStatus", id,
                 [bookings[id] EXCEPT
                    !.status = dto.status,
                    !.providerNotes = IF dto.providerNotes # None
                                      THEN dto.providerNotes ELSE @])

\* a status change that would follow the edges of the status diagram only
UpdateBookingStatusAlongEdges(id, userId, dto) ==
  IF id \notin DOMAIN bookings
  THEN Unchanged("setStatus", 404)
  ELSE IF LET found == FindActiveProviderUser(bookings[id].providerId, userId)
          IN  found = {} \/ \A pu \in found : ~ pu.isOwner /\ ~ pu.canManageBookings
  THEN Unchanged("setStatus", 403)
  ELSE IF <<bookings[id].status, dto.status>> \notin
            {<<"PENDING", "CONFIRMED">>, <<"CONFIRMED", "COMPLETED">>,
             <<"PENDING", "CANCELLED">>, <<"CONFIRMED", "CANCELLED">>,
             <<"CONFIRMED", "NO_SHOW">>}
  THEN Unchanged("setStatus", 400)
  ELSE UpdateRow("setStatus", id,
                 [bookings[id] EXCEPT
                    !.status = dto.status,
                    !.providerNotes = IF dto.providerNotes # None
                                      THEN dto.providerNotes ELSE @])

\* BookingsService.updateBookingStatus(bookingId, userId, dto)
UpdateBookingStatus(id, userId, dto) ==
  IF id \notin DOMAIN bookings
  THEN Unchanged("setStatus", 404)
  ELSE IF LET found == FindActiveProviderUser(bookings[id].providerId, userId)
          IN  found = {} \/ \A pu \in found : ~ pu.isOwner /\ ~ pu.canManageBookings
  THEN Unchanged("setStatus", 403)
  ELSE UpdateRow("setStatus", id,
                 [bookings[id] EXCEPT
                    !.status = dto.status,
                    !.providerNotes = IF dto.providerNotes # None
                                      THEN dto.providerNotes ELSE @])

\* !isCustomer && !providerUser, of updateBooking and cancelBooking
NeitherCustomerNorTeam(id, userId) ==
  /\ bookings[id].customerId # userId
  /\ FindActiveProviderUser(bookings[id].providerId, userId) = {}

\* a cancel that would refuse only an already cancelled booking
CancelBookingOfCompleted(id, userId) ==
  IF id \notin DOMAIN bookings
  THEN Unchanged("cancel", 404)
  ELSE IF NeitherCustomerNorTeam(id, userId)
  THEN Unchanged("cancel", 403)
  ELSE IF bookings[id].status = "CANCELLED"
  THEN Unchanged("cancel", 400)
  ELSE UpdateRow("cancel", id, [bookings[id] EXCEPT !.status = "CANCELLED"])

\* a cancel that would delete the booking and its items
CancelBookingDeletesRow(id, userId) ==
  IF id \notin DOMAIN bookings
  THEN Unchanged("cancel", 404)
  ELSE IF NeitherCustomerNorTeam(id, userId)
  THEN Unchanged("cancel", 403)
  ELSE IF bookings[id].status \in {"COMPLETED", "CANCELLED"}
  THEN Unchanged("cancel", 400)
  ELSE /\ bookings' = [i \in DOMAIN bookings \ {id} |-> bookings[i]]
       /\ bookingItems' = bookingItems \ ItemsOf(id)
       /\ resp' = Reply("cancel", 200)
       /\ UNCHANGED <<users, providerUsers, providerLocations, services,
                      nextId, calls, sinkLog>>

\* BookingsService.cancelBooking(bookingId, userId)
CancelBooking(id, userId) ==
  IF id \notin DOMAIN bookings
  THEN Unchanged("cancel", 404)
  ELSE IF NeitherCustomerNorTeam(id, userId)
  THEN Unchanged("cancel", 403)
  ELSE IF bookings[id].status \in {"COMPLETED", "CANCELLED"}
  THEN Unchanged("cancel", 400)
  ELSE UpdateRow("cancel", id, [bookings[id] EXCEPT !.status = "CANCELLED"])

\* UpdateBookingDto; a time of 0 and a text of None stand for an absent field
NoUpdate == [startTime |-> 0, endTime |-> 0, customerNotes |-> None,
             assignedUserId |-> None]

\* an update that would let any signed-in user through
UpdateBookingByAnyone(id, userId, dto) ==
  IF id \notin DOMAIN bookings
  THEN Unchanged("update", 404)
  ELSE IF /\ bookings[id].customerId = userId
          /\ bookings[id].status \notin {"PENDING", "CONFIRMED"}
  THEN Unchanged("update", 400)
  ELSE IF dto.assignedUserId # None /\ dto.assignedUserId \notin users
  THEN Unchanged("update", 500)
  ELSE UpdateRow("update", id,
                 [bookings[id] EXCEPT
                    !.startTime = IF dto.startTime # 0 THEN dto.startTime ELSE @,
                    !.endTime = IF dto.endTime # 0 THEN dto.endTime ELSE @,
                    !.customerNotes = IF dto.customerNotes # None
                                      THEN dto.customerNotes ELSE @,
                    !.assignedUserId = IF dto.assignedUserId # None
                                       THEN dto.assignedUserId ELSE @])

\* an update that would not look at the status for the customer
UpdateBookingInAnyStatus(id, userId, dto) ==
  IF id \notin DOMAIN bookings
  THEN Unchanged("update", 404)
  ELSE IF NeitherCustomerNorTeam(id, userId)
  THEN Unchanged("update", 403)
  ELSE IF dto.assignedUserId # None /\ dto.assignedUserId \notin users
  THEN Unchanged("update", 500)
  ELSE UpdateRow("update", id,
                 [bookings[id] EXCEPT
                    !.startTime = IF dto.startTime # 0 THEN dto.startTime ELSE @,
                    !.endTime = IF dto.endTime # 0 THEN dto.endTime ELSE @,
                    !.customerNotes = IF dto.customerNotes # None
                                      THEN dto.customerNotes ELSE @,
                    !.assignedUserId = IF dto.assignedUserId # None
                                       THEN dto.assignedUserId ELSE @])

\* BookingsService.updateBooking(bookingId, userId, dto)
UpdateBooking(id, userId, dto) ==
  IF id \notin DOMAIN bookings
  THEN Unchanged("update", 404)
  ELSE IF NeitherCustomerNorTeam(id, userId)
  THEN Unchanged("update", 403)
  ELSE IF /\ bookings[id].customerId = userId
          /\ bookings[id].status \notin {"PENDING", "CONFIRMED"}
  THEN Unchanged("update", 400)
  ELSE IF dto.assignedUserId # None /\ dto.assignedUserId \notin users
  THEN Unchanged("update", 500)
  ELSE UpdateRow("update", id,
                 [bookings[id] EXCEPT
                    !.startTime = IF dto.startTime # 0 THEN dto.startTime ELSE @,
                    !.endTime = IF dto.endTime # 0 THEN dto.endTime ELSE @,
                    !.customerNotes = IF dto.customerNotes # None
                                      THEN dto.customerNotes ELSE @,
                    !.assignedUserId = IF dto.assignedUserId # None
                                       THEN dto.assignedUserId ELSE @])

(***************************************************************************)
(* The provider listings.                                                  *)
(***************************************************************************)
\* GetBookingsQueryDto; 0 stands for an absent number or date
NoQuery == [page |-> 0, limit |-> 0, status |-> None, locationId |-> None,
            assignedUserId |-> None, startDate |-> 0, endDate |-> 0]

DefaultPage == 1

DefaultLimit == 20

\* the where clause: providerId and the filters that are set
Matches(b, providerId, f) ==
  /\ b.providerId = providerId
  /\ f.status # None => b.status = f.status
  /\ f.locationId # None => b.locationId = f.locationId
  /\ f.assignedUserId # None => b.assignedUserId = f.assignedUserId
  /\ f.startDate # 0 => b.startTime >= f.startDate
  /\ f.endDate # 0 => b.endTime <= f.endDate

\* a scoping that would let the caller's own assignedUserId filter stand
ScopeToMemberKeepsFilter(providerUser, userId, f) ==
  IF ~ providerUser.isOwner /\ ~ providerUser.canManageBookings /\ f.assignedUserId = None
  THEN [f EXCEPT !.assignedUserId = userId]
  ELSE f

\* if the member is not owner and cannot manage bookings, only their own
ScopeToMember(providerUser, userId, f) ==
  IF ~ providerUser.isOwner /\ ~ providerUser.canManageBookings
  THEN [f EXCEPT !.assignedUserId = userId]
  ELSE f

\* the rows of findMany({ where, orderBy: { startTime: 'asc' } }), in one of
\* the orders the database may return rows of equal startTime
AscendingByStart(ids) ==
  {q \in Orderings(ids) :
     \A i, j \in DOMAIN q : i < j => bookings[q[i]].startTime <= bookings[q[j]].startTime}

Listed(op, list, total, totalPages) ==
  /\ resp' = [Reply(op, 200) EXCEPT
                !.list = list,
                !.rows = {bookings[id] : id \in Range(list)},
                !.items = {it \in bookingItems : it.bookingId \in Range(list)},
                !.total = total, !.totalPages = totalPages]
  /\ UNCHANGED <<users, providerUsers, providerLocations, services,
                 bookings, bookingItems, nextId, calls, sinkLog>>

\* BookingsService.getProviderBookingsPaginated(providerId, userId, dto)
GetProviderBookingsPaginated(providerId, userId, dto) ==
  LET found == FindActiveProviderUser(providerId, userId)
  IN  IF found = {}
      THEN Unchanged("listPaginated", 403)
      ELSE \E providerUser \in found :
             LET page  == IF dto.page = 0 THEN DefaultPage ELSE dto.page
                 limit == IF dto.limit = 0 THEN DefaultLimit ELSE dto.limit
                 skip  == (page - 1) * limit
                 where == ScopeToMember(providerUser, userId, dto)
                 ids   == {id \in DOMAIN bookings : Matches(bookings[id], providerId, where)}
                 total == Cardinality(ids)
             IN  \E q \in AscendingByStart(ids) :
                   Listed("listPaginated",
                          SubSeq(q, skip + 1,
                                 IF skip + limit < total THEN skip + limit ELSE total),
                          total, (total + limit - 1) \div limit)

\* BookingsService.getProviderBookings(providerId, userId?, filters?)
GetProviderBookings(providerId, userId, filters) ==
  LET found == FindActiveProviderUser(providerId, userId)
  IN  IF userId # None /\ found = {}
      THEN Unchanged("list", 403)
      ELSE LET where == IF userId = None THEN filters
                        ELSE ScopeToMember(CHOOSE pu \in found : TRUE, userId, filters)
               ids   == {id \in DOMAIN bookings : Matches(bookings[id], providerId, where)}
           IN  \E q \in AscendingByStart(ids) :
                 Listed("list", q, Cardinality(ids), 1)

(***************************************************************************)
(* Creation under concurrent reads and account removal.                    *)
(***************************************************************************)
MaxBookings == 2

CreateDtoSet(custs, guests, provs, locs, assignees, pus, lists) ==
  {[NoDto EXCEPT !.customerId = cu, !.guestInfo = g, !.providerId = p,
                 !.locationId = l, !.assignedUserId = a, !.providerUserId = m,
                 !.startTime = 1, !.endTime = 2, !.serviceIds = sv] :
     cu \in custs, g \in guests, p \in provs, l \in locs, a \in assignees,
     m \in pus, sv \in lists}

\* the requests tried: every party shape, every (provider, location) pair
\* with every service list, and every staffing reference
CreateDtos ==
  CreateDtoSet({None, "u4", GhostUser}, {None, "a@b.com"}, {"p1"}, {"l1"},
               {None}, {None}, {<<"s1", "s2">>})
  \cup CreateDtoSet({"u4"}, {None}, Providers, Locations, {None}, {None},
                    {<<>>, <<"s1", "s2">>, <<"s1", "s1">>, <<"s3">>, <<"s4">>})
  \cup CreateDtoSet({None}, {"a@b.com"}, Providers, Locations, {None}, {None},
                    {<<"s1", "s2">>, <<"s4">>})
  \cup CreateDtoSet({"u4"}, {None}, {"p1"}, {"l1"}, {None, "u2", "u4"},
                    {None, "m2", "m5"}, {<<"s1", "s2">>})

NextCreate ==
  \/ \E c \in Clients, dto \in CreateDtos :
       nextId <= MaxBookings /\ CreateBookingValidate(c, dto)
  \/ \E c \in Clients : TxCreateBooking(c)
  \/ \E c \in Clients : TxCreateBookingFails(c)
  \/ \E c \in Clients, i \in 1..2 : TxCreateItem(c, i)
  \/ \E c \in Clients, i \in 1..2 : TxCreateItemFails(c, i)
  \/ \E c \in Clients : TxCommit(c)
  \/ \E c \in Clients, delivered \in BOOLEAN : Notify(c, delivered)
  \/ \E id \in 1..(MaxBookings + 1), email \in {None} \cup GuestEmails : GetBookingById(id, email)
  \/ \E u \in {"u2", "u4"} : UsersRemove(u)

SpecCreate == Init /\ [][NextCreate]_vars
(***************************************************************************)
(* One booking under every operation of every actor.                       *)
(***************************************************************************)
MaxLifecycleBookings == 1

LifecycleDtos ==
  CreateDtoSet({None, "u4"}, {None}, {"p1"}, {"l1"}, {None}, {None}, {<<"s1">>})

LifecycleStatusDtos ==
  [status : Statuses \ {"CONFIRMED"}, providerNotes : {None}]
  \cup [status : {"CONFIRMED"}, providerNotes : {"called"}]

LifecycleUpdates == {[NoUpdate EXCEPT !.assignedUserId = "u3"]}

Next ==
  \/ \E c \in Clients, dto \in LifecycleDtos :
       nextId <= MaxLifecycleBookings /\ CreateBookingValidate(c, dto)
  \/ \E c \in Clients : TxCreateBooking(c)
  \/ \E c \in Clients : TxCreateBookingFails(c)
  \/ \E c \in Clients, i \in 1..2 : TxCreateItem(c, i)
  \/ \E c \in Clients, i \in 1..2 : TxCreateItemFails(c, i)
  \/ \E c \in Clients : TxCommit(c)
  \/ \E c \in Clients, delivered \in BOOLEAN : Notify(c, delivered)
  \/ \E id \in 1..MaxLifecycleBookings, a \in AllUsers, t \in {"u3", "u4"} :
       AssignBookingToUser(id, t, a)
  \/ \E id \in 1..MaxLifecycleBookings, a \in AllUsers, dto \in LifecycleStatusDtos :
       UpdateBookingStatus(id, a, dto)
  \/ \E id \in 1..MaxLifecycleBookings, a \in AllUsers : CancelBooking(id, a)
  \/ \E id \in 1..MaxLifecycleBookings, a \in AllUsers, dto \in LifecycleUpdates :
       UpdateBooking(id, a, dto)

Spec == Init /\ [][Next]_vars
(***************************************************************************)
(* A customer's booking and a guest's booking under updateBooking and      *)
(* cancelBooking of every actor; u4 is the customer of the one and a       *)
(* stranger to the other.                                                  *)
(***************************************************************************)
MaxUpdatedBookings == 1

UpdateCreateDtos ==
  CreateDtoSet({None, "u4"}, {None, "a@b.com"}, {"p1"}, {"l1"}, {None}, {None},
               {<<"s1">>})

UpdateStatusDtos == [status : {"CONFIRMED", "COMPLETED"}, providerNotes : {None}]

BookingUpdates ==
  {[NoUpdate EXCEPT !.assignedUserId = "u3"], [NoUpdate EXCEPT !.startTime = 3]}

NextUpdate ==
  \/ \E c \in Clients, dto \in UpdateCreateDtos :
       nextId <= MaxUpdatedBookings /\ CreateBookingValidate(c, dto)
  \/ \E c \in Clients : TxCreateBooking(c)
  \/ \E c \in Clients : TxCreateBookingFails(c)
  \/ \E c \in Clients, i \in 1..2 : TxCreateItem(c, i)
  \/ \E c \in Clients, i \in 1..2 : TxCreateItemFails(c, i)
  \/ \E c \in Clients : TxCommit(c)
  \/ \E c \in Clients, delivered \in BOOLEAN : Notify(c, delivered)
  \/ \E id \in 1..MaxUpdatedBookings, a \in {"u1", "u3"}, dto \in UpdateStatusDtos :
       UpdateBookingStatus(id, a, dto)
  \/ \E id \in 1..MaxUpdatedBookings, a \in AllUsers : CancelBooking(id, a)
  \/ \E id \in 1..MaxUpdatedBookings, a \in AllUsers, dto \in BookingUpdates :
       UpdateBooking(id, a, dto)

SpecUpdate == Init /\ [][NextUpdate]_vars
(***************************************************************************)
(* Several bookings of two providers under the provider listings.          *)
(***************************************************************************)
MaxListedBookings == 2

ListingDtos ==
  CreateDtoSet({"u4"}, {None}, {"p1"}, {"l1"}, {"u2", "u3"}, {None}, {<<"s1">>})
  \cup CreateDtoSet({None}, {"a@b.com"}, {"p2"}, {"l2"}, {"u3"}, {None}, {<<"s4">>})

ListingQueries ==
  {[NoQuery EXCEPT !.page = 2, !.limit = 1],
   [NoQuery EXCEPT !.assignedUserId = "u2"]}

ListingFilters == {[NoQuery EXCEPT !.assignedUserId = a] : a \in {None, "u2"}}

NextListing ==
  \/ \E c \in Clients, dto \in ListingDtos :
       nextId <= MaxListedBookings /\ CreateBookingValidate(c, dto)
  \/ \E c \in Clients : TxCreateBooking(c)
  \/ \E c \in Clients : TxCreateBookingFails(c)
  \/ \E c \in Clients, i \in 1..2 : TxCreateItem(c, i)
  \/ \E c \in Clients, i \in 1..2 : TxCreateItemFails(c, i)
  \/ \E c \in Clients : TxCommit(c)
  \/ \E c \in Clients, delivered \in BOOLEAN : Notify(c, delivered)
  \/ \E p \in Providers, a \in AllUsers, dto \in ListingQueries :
       GetProviderBookingsPaginated(p, a, dto)
  \/ \E p \in Providers, a \in AllUsers \cup {None}, f \in ListingFilters :
       GetProviderBookings(p, a, f)

SpecListing == Init /\ [][NextListing]_vars

(***************************************************************************)
(* The pricing of createBooking on its own: a list of base prices is       *)
(* drawn, priced as createBooking prices it and stored as the row of the   *)
(* booking stores it.  The row is kept in calls, the other tables empty.   *)
(***************************************************************************)
MaxServices == 2

PriceDomain == {1, 4, 35, 36, 59, 60, 203, 800, 1500, 80000, 150000}

RECURSIVE PriceLists(_)
PriceLists(n) ==
  IF n = 0 THEN {<<>>}
  ELSE PriceLists(n - 1) \cup
       {Append(l, x) : l \in {k \in PriceLists(n - 1) : Len(k) = n - 1}, x \in PriceDomain}

InitPricing ==
  /\ users = {}
  /\ providerUsers = {}
  /\ providerLocations = {}
  /\ services = <<>>
  /\ bookings = <<>>
  /\ bookingItems = {}
  /\ nextId = 1
  /\ sinkLog = <<>>
  /\ resp = NoResp
  /\ \E prices \in PriceLists(MaxServices) :
       calls = [c \in Clients |->
                  [IdleCall EXCEPT
                     !.pc = "tx",
                     !.found = [i \in DOMAIN prices |->
                                  [id |-> "s1", basePrice |-> prices[i]]]]]

\* lines 99-116 of createBooking: the amounts computed and written to the row
PriceBooking(c) ==
  /\ calls[c].pc = "tx"
  /\ calls' = [calls EXCEPT
       ![c].pc = "items",
       ![c].row = NewBookingRow(nextId, calls[c].dto, calls[c].found)]
  /\ resp' = NoResp
  /\ UNCHANGED <<users, providerUsers, providerLocations, services,
                 bookings, bookingItems, nextId, sinkLog>>

NextPricing == \E c \in Clients : PriceBooking(c)

SpecPricing == InitPricing /\ [][NextPricing]_vars
(***************************************************************************)
(* The paginated listings query by query.  findMany and count are two      *)
(* statements started together under Promise.all; each sees the rows       *)
(* committed when it runs, in either order.  GetProviderBookingsPaginated  *)
(* above is the case of the two running back to back.                      *)
(***************************************************************************)
Readers == {"r1"}

NoWhere == [providerId |-> None, customerId |-> None, f |-> NoQuery]

IdleRead == [pc |-> "idle", op |-> "none", where |-> NoWhere, page |-> 0, limit |-> 0,
             found |-> FALSE, counted |-> FALSE, list |-> <<>>, total |-> 0]

MatchesWhere(b, where) ==
  /\ where.providerId # None => b.providerId = where.providerId
  /\ where.customerId # None => b.customerId = where.customerId
  /\ where.f.status # None => b.status = where.f.status
  /\ where.f.locationId # None => b.locationId = where.f.locationId
  /\ where.f.assignedUserId # None => b.assignedUserId = where.f.assignedUserId
  /\ where.f.startDate # 0 => b.startTime >= where.f.startDate
  /\ where.f.endDate # 0 => b.endTime <= where.f.endDate

\* orderBy: { startTime: 'desc' }
DescendingByStart(ids) ==
  {q \in Orderings(ids) :
     \A i, j \in DOMAIN q : i < j => bookings[q[i]].startTime >= bookings[q[j]].startTime}

\* skip: (page - 1) * limit, take: limit
PageOf(q, page, limit) ==
  SubSeq(q, (page - 1) * limit + 1,
         IF page * limit < Len(q) THEN page * limit ELSE Len(q))

\* const { page = 1, limit = 20, ... } = dto, and the two queries are started
StartQueries(r, op, where, dto) ==
  /\ calls' = [calls EXCEPT ![r] =
       [IdleRead EXCEPT !.pc = "queries", !.op = op, !.where = where,
                        !.page = IF dto.page = 0 THEN DefaultPage ELSE dto.page,
                        !.limit = IF dto.limit = 0 THEN DefaultLimit ELSE dto.limit]]
  /\ resp' = NoResp
  /\ UNCHANGED <<users, providerUsers, providerLocations, services,
                 bookings, bookingItems, nextId, sinkLog>>

\* getProviderBookingsPaginated up to Promise.all
BeginProviderPage(r, providerId, userId, dto) ==
  /\ calls[r].pc = "idle"
  /\ IF FindActiveProviderUser(providerId, userId) = {}
     THEN Unchanged("listPaginated", 403)
     ELSE \E providerUser \in FindActiveProviderUser(providerId, userId) :
            StartQueries(r, "listPaginated",
                         [providerId |-> providerId, customerId |-> None,
                          f |-> ScopeToMember(providerUser, userId, dto)],
                         dto)

\* getUserBookings up to Promise.all: status, startDate and endDate are the
\* only filters it takes from the dto
BeginUserPage(r, userId, dto) ==
  /\ calls[r].pc = "idle"
  /\ StartQueries(r, "listMine",
                  [providerId |-> None, customerId |-> userId,
                   f |-> [NoQuery EXCEPT !.status = dto.status,
                                         !.startDate = dto.startDate,
                                         !.endDate = dto.endDate]],
                  dto)

\* prisma.booking.findMany({ where, skip, take, orderBy })
PageFindMany(r) ==
  /\ calls[r].pc = "queries"
  /\ ~ calls[r].found
  /\ \E q \in (IF calls[r].op = "listMine"
                THEN DescendingByStart({id \in DOMAIN bookings :
                                          MatchesWhere(bookings[id], calls[r].where)})
                ELSE AscendingByStart({id \in DOMAIN bookings :
                                         MatchesWhere(bookings[id], calls[r].where)})) :
       calls' = [calls EXCEPT ![r].found = TRUE,
                              ![r].list = PageOf(q, calls[r].page, calls[r].limit)]
  /\ resp' = NoResp
  /\ UNCHANGED <<users, providerUsers, providerLocations, services,
                 bookings, bookingItems, nextId, sinkLog>>

\* prisma.booking.count({ where })
PageCount(r) ==
  /\ calls[r].pc = "queries"
  /\ ~ calls[r].counted
  /\ calls' = [calls EXCEPT
       ![r].counted = TRUE,
       ![r].total = Cardinality({id \in DOMAIN bookings :
                                   MatchesWhere(bookings[id], calls[r].where)})]
  /\ resp' = NoResp
  /\ UNCHANGED <<users, providerUsers, providerLocations, services,
                 bookings, bookingItems, nextId, sinkLog>>

\* return { bookings, pagination: { page, limit, total, totalPages } }
PageReturn(r) ==
  /\ calls[r].pc = "queries"
  /\ calls[r].found /\ calls[r].counted
  /\ resp' = [Reply(calls[r].op, 200) EXCEPT
                !.list = calls[r].list,
                !.rows = {bookings[id] : id \in Range(calls[r].list)},
                !.items = {it \in bookingItems : it.bookingId \in Range(calls[r].list)},
                !.page = calls[r].page, !.limit = calls[r].limit,
                !.total = calls[r].total,
                !.totalPages = (calls[r].total + calls[r].limit - 1) \div calls[r].limit]
  /\ calls' = [calls EXCEPT ![r] = IdleRead]
  /\ UNCHANGED <<users, providerUsers, providerLocations, services,
                 bookings, bookingItems, nextId, sinkLog>>

\* BookingsService.getGuestBookingsByEmail(email)
GetGuestBookingsByEmail(email) ==
  IF email = None
  THEN Unchanged("listGuest", 400)
  ELSE \E q \in DescendingByStart({id \in DOMAIN bookings :
                                      /\ bookings[id].isGuestBooking
                                      /\ bookings[id].guestEmail = email}) :
         Listed("listGuest", q, 0, 0)

MaxPagedBookings == 2

PagedDtos ==
  {[d EXCEPT !.startTime = t, !.endTime = t + 1] :
     d \in CreateDtoSet({"u4"}, {None}, {"p1"}, {"l1"}, {None}, {None}, {<<"s1">>})
           \cup CreateDtoSet({None}, {"a@b.com"}, {"p1"}, {"l1"}, {None}, {None}, {<<"s1">>}),
     t \in {1, 3}}

PageQueries ==
  {NoQuery, [NoQuery EXCEPT !.page = 1, !.limit = 1],
   [NoQuery EXCEPT !.page = 2, !.limit = 1]}

InitPaged ==
  /\ users = AllUsers
  /\ providerUsers = InitProviderUsers
  /\ providerLocations = InitProviderLocations
  /\ services = InitServices
  /\ bookings = <<>>
  /\ bookingItems = {}
  /\ nextId = 1
  /\ calls = [c \in Clients \cup Readers |-> IF c \in Clients THEN IdleCall ELSE IdleRead]
  /\ sinkLog = <<>>
  /\ resp = NoResp

NextPaged ==
  \/ \E c \in Clients, dto \in PagedDtos :
       nextId <= MaxPagedBookings /\ CreateBookingValidate(c, dto)
  \/ \E c \in Clients : TxCreateBooking(c)
  \/ \E c \in Clients, i \in 1..2 : TxCreateItem(c, i)
  \/ \E c \in Clients : TxCommit(c)
  \/ \E c \in Clients : Notify(c, TRUE)
  \/ \E r \in Readers, a \in {"u1", "u4"}, dto \in PageQueries :
       BeginProviderPage(r, "p1", a, dto)
  \/ \E r \in Readers, dto \in PageQueries : BeginUserPage(r, "u4", dto)
  \/ \E r \in Readers : PageFindMany(r)
  \/ \E r \in Readers : PageCount(r)
  \/ \E r \in Readers : PageReturn(r)
  \/ \E email \in {None, "a@b.com"} : GetGuestBookingsByEmail(email)

SpecPaged == InitPaged /\ [][NextPaged]_vars

(***************************************************************************)
(* Team membership.  ProvidersService.addTeamMember and removeTeamMember   *)
(* look the requester up among the active owners; ProviderUsersService's   *)
(* updateProviderUser and removeUserFromProvider look the requester up by  *)
(* (providerId, userId) alone.                                             *)
(***************************************************************************)
TeamUnchanged ==
  UNCHANGED <<users, providerLocations, services, bookings, bookingItems,
              nextId, calls, sinkLog>>

\* prisma.providerUser.findFirst({ where: { providerId, userId, isOwner: true, isActive: true } })
FindActiveOwner(providerId, userId) ==
  {pu \in providerUsers :
     pu.providerId = providerId /\ pu.userId = userId /\ pu.isOwner /\ pu.isActive}

\* prisma.providerUser.findUnique({ where: { providerId_userId } })
FindProviderUser(providerId, userId) ==
  {pu \in providerUsers : pu.providerId = providerId /\ pu.userId = userId}

\* the fields a dto or a Partial leaves out keep the value they had
Given(data, field, old) == IF field \in DOMAIN data THEN data[field] ELSE old

AddTeamMember(providerId, dto, requestingUserId) ==
  LET existingMember == FindProviderUser(providerId, dto.userId)
  IN  /\ TeamUnchanged
      /\ IF providerId \notin Providers
         THEN /\ resp' = Reply("addTeamMember", 404)
              /\ UNCHANGED providerUsers
         ELSE IF FindActiveOwner(providerId, requestingUserId) = {}
         THEN /\ resp' = Reply("addTeamMember", 403)
              /\ UNCHANGED providerUsers
         ELSE IF \E pu \in existingMember : pu.isActive
         THEN /\ resp' = Reply("addTeamMember", 409)
              /\ UNCHANGED providerUsers
         ELSE IF existingMember # {}
         THEN /\ providerUsers' =
                   (providerUsers \ existingMember) \cup
                   { [pu EXCEPT
                        !.isActive = TRUE,
                        !.isOwner = Given(dto, "isOwner", @),
                        !.canManageBookings = Given(dto, "canManageBookings", @),
                        !.canManageServices = Given(dto, "canManageServices", @),
                        !.canManageLocations = Given(dto, "canManageLocations", @)]
                     : pu \in existingMember }
              /\ resp' = Reply("addTeamMember", 201)
         ELSE IF dto.userId \notin users
         THEN /\ resp' = Reply("addTeamMember", 500)
              /\ UNCHANGED providerUsers
         ELSE /\ providerUsers' = providerUsers \cup
                   { [id |-> providerId \o "-" \o dto.userId,
                      providerId |-> providerId,
                      userId |-> dto.userId,
                      isOwner |-> Given(dto, "isOwner", FALSE),
                      isActive |-> TRUE,
                      canManageBookings |-> Given(dto, "canManageBookings", TRUE),
                      canManageServices |-> Given(dto, "canManageServices", FALSE),
                      canManageLocations |-> Given(dto, "canManageLocations", FALSE)] }
              /\ resp' = Reply("addTeamMember", 201)

UpdateProviderUser(providerId, userId, data, requestingUserId) ==
  LET providerUser == FindProviderUser(providerId, userId)
  IN  /\ TeamUnchanged
      /\ IF /\ requestingUserId # userId
            /\ ~ \E pu \in FindProviderUser(providerId, requestingUserId) : pu.isOwner
         THEN /\ resp' = Reply("updateProviderUser", 403)
              /\ UNCHANGED providerUsers
         ELSE IF providerUser = {}
         THEN /\ resp' = Reply("updateProviderUser", 404)
              /\ UNCHANGED providerUsers
         ELSE /\ providerUsers' =
                   (providerUsers \ providerUser) \cup
                   { [pu EXCEPT
                        !.isActive = Given(data, "isActive", @),
                        !.canManageBookings = Given(data, "canManageBookings", @),
                        !.canManageServices = Given(data, "canManageServices", @),
                        !.canManageLocations = Given(data, "canManageLocations", @)]
                     : pu \in providerUser }
              /\ resp' = Reply("updateProviderUser", 200)

\* prisma.providerUser.count({ where: { providerId, isOwner: true } })
CountOwners(providerId) ==
  Cardinality({pu \in providerUsers : pu.providerId = providerId /\ pu.isOwner})

RemoveUserFromProvider(providerId, userId, requestingUserId) ==
  LET userToRemove == FindProviderUser(providerId, userId)
  IN  /\ UNCHANGED <<users, providerLocations, services, bookingItems,
                     nextId, calls, sinkLog>>
      /\ IF /\ ~ \E pu \in FindProviderUser(providerId, requestingUserId) : pu.isOwner
            /\ requestingUserId # userId
         THEN /\ resp' = Reply("removeUserFromProvider", 403)
              /\ UNCHANGED <<providerUsers, bookings>>
         ELSE IF /\ requestingUserId = userId
                 /\ \E pu \in userToRemove : pu.isOwner
                 /\ CountOwners(providerId) <= 1
         THEN /\ resp' = Reply("removeUserFromProvider", 403)
              /\ UNCHANGED <<providerUsers, bookings>>
         ELSE IF userToRemove = {}
         THEN /\ resp' = Reply("removeUserFromProvider", 500)
              /\ UNCHANGED <<providerUsers, bookings>>
         ELSE /\ providerUsers' = providerUsers \ userToRemove
              /\ bookings' =
                   [id \in DOMAIN bookings |->
                      [bookings[id] EXCEPT
                         !.providerUserId =
                            IF \E pu \in userToRemove : pu.id = @
                            THEN None ELSE @]]
              /\ resp' = Reply("removeUserFromProvider", 200)

\* prisma.providerUser.count({ where: { providerId, isOwner: true, isActive: true } })
CountActiveOwners(providerId) ==
  Cardinality({pu \in providerUsers :
                 pu.providerId = providerId /\ pu.isOwner /\ pu.isActive})

RemoveTeamMember(providerId, userId, requestingUserId) ==
  LET teamMember == FindProviderUser(providerId, userId)
  IN  /\ TeamUnchanged
      /\ IF FindActiveOwner(providerId, requestingUserId) = {}
         THEN /\ resp' = Reply("removeTeamMember", 403)
              /\ UNCHANGED providerUsers
         ELSE IF teamMember = {}
         THEN /\ resp' = Reply("removeTeamMember", 404)
              /\ UNCHANGED providerUsers
         ELSE IF /\ \E pu \in teamMember : pu.isOwner
                 /\ CountActiveOwners(providerId) <= 1
         THEN /\ resp' = Reply("removeTeamMember", 403)
              /\ UNCHANGED providerUsers
         ELSE /\ providerUsers' =
                   (providerUsers \ teamMember) \cup
                   { [pu EXCEPT !.isActive = FALSE] : pu \in teamMember }
              /\ resp' = Reply("removeTeamMember", 200)

\* the team of p1 under every requester; p2 keeps its one owner
TeamUsers == {"u1", "u2", "u4"}

AddTeamMemberDtos ==
  [userId : TeamUsers] \cup [userId : TeamUsers, isOwner : {TRUE}]

ProviderUserUpdates ==
  [isActive : BOOLEAN] \cup [canManageBookings : {FALSE}]

NextTeam ==
  \/ \E dto \in AddTeamMemberDtos, r \in TeamUsers :
       AddTeamMember("p1", dto, r)
  \/ \E u \in TeamUsers, r \in TeamUsers, data \in ProviderUserUpdates :
       UpdateProviderUser("p1", u, data, r)
  \/ \E u \in TeamUsers, r \in TeamUsers : RemoveUserFromProvider("p1", u, r)
  \/ \E u \in TeamUsers, r \in TeamUsers : RemoveTeamMember("p1", u, r)

SpecTeam == Init /\ [][NextTeam]_vars

(***************************************************************************)
(* The catalog under the bookings: ServicesService.update changes a        *)
(* service's price or deactivates it, LocationsService's                   *)
(* removeLocationFromProvider deactivates a provider's location link.      *)
(* Both are single statements that may run between any two steps of a      *)
(* createBooking in flight.                                                *)
(***************************************************************************)
CatalogUnchanged(op, code) ==
  /\ resp' = Reply(op, code)
  /\ UNCHANGED <<users, providerUsers, providerLocations, services,
                 bookings, bookingItems, nextId, calls, sinkLog>>

\* a service update that would carry the new price into the booked items
ServicesUpdateRepricesItems(id, updateServiceDto, userId) ==
  IF id \notin DOMAIN services
  THEN CatalogUnchanged("servicesUpdate", 404)
  ELSE IF \A pu \in FindActiveProviderUser(services[id].providerId, userId) :
            ~ pu.isOwner /\ ~ pu.canManageServices
  THEN CatalogUnchanged("servicesUpdate", 403)
  ELSE /\ services' =
            [services EXCEPT
               ![id].basePrice =
                  IF "basePrice" \in DOMAIN updateServiceDto
                  THEN DecimalStore(NumberOfPrice(updateServiceDto.basePrice))
                  ELSE @,
               ![id].isActive = Given(updateServiceDto, "isActive", @)]
       /\ bookingItems' =
            { IF it.serviceId = id
              THEN [it EXCEPT !.unitPrice = services'[id].basePrice,
                              !.total = services'[id].basePrice]
              ELSE it : it \in bookingItems }
       /\ resp' = Reply("servicesUpdate", 200)
       /\ UNCHANGED <<users, providerUsers, providerLocations,
                      bookings, nextId, calls, sinkLog>>

\* ServicesService.update(id, updateServiceDto, userId)
ServicesUpdate(id, updateServiceDto, userId) ==
  IF id \notin DOMAIN services
  THEN CatalogUnchanged("servicesUpdate", 404)
  ELSE IF \A pu \in FindActiveProviderUser(services[id].providerId, userId) :
            ~ pu.isOwner /\ ~ pu.canManageServices
  THEN CatalogUnchanged("servicesUpdate", 403)
  ELSE /\ services' =
            [services EXCEPT
               ![id].basePrice =
                  IF "basePrice" \in DOMAIN updateServiceDto
                  THEN DecimalStore(NumberOfPrice(updateServiceDto.basePrice))
                  ELSE @,
               ![id].isActive = Given(updateServiceDto, "isActive", @)]
       /\ resp' = Reply("servicesUpdate", 200)
       /\ UNCHANGED <<users, providerUsers, providerLocations,
                      bookings, bookingItems, nextId, calls, sinkLog>>

\* LocationsService.removeLocationFromProvider(providerId, locationId, userId)
RemoveLocationFromProvider(providerId, locationId, userId) ==
  IF \A pu \in FindActiveProviderUser(providerId, userId) :
       ~ pu.isOwner /\ ~ pu.canManageLocations
  THEN CatalogUnchanged("removeLocation", 403)
  ELSE IF ~ \E pl \in providerLocations :
              pl.providerId = providerId /\ pl.locationId = locationId
  THEN CatalogUnchanged("removeLocation", 404)
  ELSE /\ providerLocations' =
            { IF pl.providerId = providerId /\ pl.locationId = locationId
              THEN [pl EXCEPT !.isActive = FALSE]
              ELSE pl : pl \in providerLocations }
       /\ resp' = Reply("removeLocation", 200)
       /\ UNCHANGED <<users, providerUsers, services,
                      bookings, bookingItems, nextId, calls, sinkLog>>

MaxCatalogBookings == 1

CatalogDtos ==
  CreateDtoSet({"u4"}, {None}, {"p1"}, {"l1"}, {None}, {None}, {<<"s1", "s2">>})

UpdateServiceDtos ==
  [basePrice : {80000, 150000}] \cup [isActive : BOOLEAN]

CatalogStatusDtos == [status : {"CONFIRMED"}, providerNotes : {None}]

CatalogUpdates == {[NoUpdate EXCEPT !.startTime = 3]}

NextCatalog ==
  \/ \E c \in Clients, dto \in CatalogDtos :
       nextId <= MaxCatalogBookings /\ CreateBookingValidate(c, dto)
  \/ \E c \in Clients : TxCreateBooking(c)
  \/ \E c \in Clients, i \in 1..2 : TxCreateItem(c, i)
  \/ \E c \in Clients : TxCommit(c)
  \/ \E c \in Clients : Notify(c, TRUE)
  \/ \E u \in {"u2", "u3"}, dto \in UpdateServiceDtos : ServicesUpdate("s1", dto, u)
  \/ \E u \in {"u2", "u3"} : RemoveLocationFromProvider("p1", "l1", u)
  \/ \E id \in 1..MaxCatalogBookings : AssignBookingToUser(id, "u3", "u1")
  \/ \E id \in 1..MaxCatalogBookings, dto \in CatalogStatusDtos :
       UpdateBookingStatus(id, "u1", dto)
  \/ \E id \in 1..MaxCatalogBookings : CancelBooking(id, "u4")
  \/ \E id \in 1..MaxCatalogBookings, dto \in CatalogUpdates :
       UpdateBooking(id, "u4", dto)

SpecCatalog == Init /\ [][NextCatalog]_vars

(***************************************************************************)
(* One booking under assign and under updateBooking with every shape of    *)
(* request: no field, each field alone, all four.                          *)
(***************************************************************************)
MaxEditedBookings == 1

EditCreateDtos ==
  CreateDtoSet({"u4"}, {None}, {"p1"}, {"l1"}, {None}, {None}, {<<"s1">>})

EditUpdates ==
  { NoUpdate,
    [NoUpdate EXCEPT !.startTime = 3],
    [NoUpdate EXCEPT !.endTime = 4],
    [NoUpdate EXCEPT !.customerNotes = "late"],
    [NoUpdate EXCEPT !.assignedUserId = "u2"],
    [NoUpdate EXCEPT !.assignedUserId = "u4"],
    [startTime |-> 3, endTime |-> 4, customerNotes |-> "late",
     assignedUserId |-> "u2"] }

EditStatusDtos == [status : {"CONFIRMED"}, providerNotes : {None}]

\* the booking's customer, who has no active membership of the provider
EditActors == {"u4"}

NextEdit ==
  \/ \E c \in Clients, dto \in EditCreateDtos :
       nextId <= MaxEditedBookings /\ CreateBookingValidate(c, dto)
  \/ \E c \in Clients : TxCreateBooking(c)
  \/ \E c \in Clients, i \in 1..1 : TxCreateItem(c, i)
  \/ \E c \in Clients : TxCommit(c)
  \/ \E c \in Clients : Notify(c, TRUE)
  \/ \E id \in 1..MaxEditedBookings, dto \in EditStatusDtos :
       UpdateBookingStatus(id, "u1", dto)
  \/ \E id \in 1..MaxEditedBookings, t \in {"u3", "u4"} :
       AssignBookingToUser(id, t, "u1")
  \/ \E id \in 1..MaxEditedBookings, a \in EditActors, dto \in EditUpdates :
       UpdateBooking(id, a, dto)

SpecEdit == Init /\ [][NextEdit]_vars

(***************************************************************************)
(* updateBookingStatus and cancelBooking statement by statement: the read  *)
(* of the booking, the read of the caller's membership with the checks on  *)
(* what was read, and the update, which writes the columns of its data on  *)
(* the row as it is then.  Two calls in flight interleave at these         *)
(* statements; a call that has returned keeps its answer in calls[w].      *)
(* UpdateBookingStatus and CancelBooking above are the calls whose three   *)
(* statements run back to back.                                            *)
(***************************************************************************)
Writers == {"w1", "w2"}

NoStatusDto == [status |-> None, providerNotes |-> None]

IdleWrite == [pc |-> "idle", op |-> "none", id |-> 0, userId |-> None,
              dto |-> NoStatusDto, booking |-> NoRow, code |-> 0]

\* data: { status: BookingStatus.CANCELLED }
CancelData == [status |-> "CANCELLED", providerNotes |-> None]

Returned(w, code) ==
  calls' = [calls EXCEPT ![w].pc = "done", ![w].code = code]

\* prisma.booking.findUnique({ where: { id: bookingId } })
ReadBooking(w, op, id, userId, dto) ==
  /\ calls[w].pc = "idle"
  /\ IF id \notin DOMAIN bookings
     THEN /\ calls' = [calls EXCEPT ![w] =
                 [IdleWrite EXCEPT !.pc = "done", !.op = op, !.id = id,
                                   !.userId = userId, !.dto = dto, !.code = 404]]
          /\ resp' = Reply(op, 404)
     ELSE /\ calls' = [calls EXCEPT ![w] =
                 [IdleWrite EXCEPT !.pc = "member", !.op = op, !.id = id,
                                   !.userId = userId, !.dto = dto,
                                   !.booking = bookings[id]]]
          /\ resp' = NoResp
  /\ UNCHANGED <<users, providerUsers, providerLocations, services,
                 bookings, bookingItems, nextId, sinkLog>>

UpdateBookingStatusRead(w, id, userId, dto) ==
  ReadBooking(w, "setStatus", id, userId, dto)

CancelBookingRead(w, id, userId) ==
  ReadBooking(w, "cancel", id, userId, CancelData)

\* the permission check of the call, on the membership read now and the
\* booking read before
MemberRefused(op, booking, userId) ==
  LET found == FindActiveProviderUser(booking.providerId, userId)
  IN  IF op = "setStatus"
      THEN found = {} \/ \A pu \in found : ~ pu.isOwner /\ ~ pu.canManageBookings
      ELSE booking.customerId # userId /\ found = {}

\* prisma.providerUser.findFirst and the checks before the update
CheckMember(w) ==
  /\ calls[w].pc = "member"
  /\ IF MemberRefused(calls[w].op, calls[w].booking, calls[w].userId)
     THEN Returned(w, 403) /\ resp' = Reply(calls[w].op, 403)
     ELSE IF /\ calls[w].op = "cancel"
             /\ calls[w].booking.status \in {"COMPLETED", "CANCELLED"}
     THEN Returned(w, 400) /\ resp' = Reply(calls[w].op, 400)
     ELSE /\ calls' = [calls EXCEPT ![w].pc = "write"]
          /\ resp' = NoResp
  /\ UNCHANGED <<users, providerUsers, providerLocations, services,
                 bookings, bookingItems, nextId, sinkLog>>

\* the row after UPDATE bookings SET status (and providerNotes when given)
StatusWritten(b, dto) ==
  [b EXCEPT !.status = dto.status,
            !.providerNotes = IF dto.providerNotes # None
                              THEN dto.providerNotes ELSE @]

\* an update that would write back the row the call had read
WriteStatusOfReadRow(w) ==
  /\ calls[w].pc = "write"
  /\ bookings' = [bookings EXCEPT
       ![calls[w].id] = StatusWritten(calls[w].booking, calls[w].dto)]
  /\ resp' = [Reply(calls[w].op, 200)
                EXCEPT !.rows = {bookings'[calls[w].id]},
                       !.items = ItemsOf(calls[w].id)]
  /\ Returned(w, 200)
  /\ UNCHANGED <<users, providerUsers, providerLocations, services,
                 bookingItems, nextId, sinkLog>>

\* prisma.booking.update({ where: { id: bookingId }, data })
WriteStatus(w) ==
  /\ calls[w].pc = "write"
  /\ bookings' = [bookings EXCEPT
       ![calls[w].id] = StatusWritten(@, calls[w].dto)]
  /\ resp' = [Reply(calls[w].op, 200)
                EXCEPT !.rows = {bookings'[calls[w].id]},
                       !.items = ItemsOf(calls[w].id)]
  /\ Returned(w, 200)
  /\ UNCHANGED <<users, providerUsers, providerLocations, services,
                 bookingItems, nextId, sinkLog>>

MaxRacedBookings == 1

RaceDtos ==
  CreateDtoSet({"u4"}, {None}, {"p1"}, {"l1"}, {None}, {None}, {<<"s1">>})

RaceStatusDtos ==
  { [status |-> "CONFIRMED", providerNotes |-> None],
    [status |-> "COMPLETED", providerNotes |-> "called"] }

InitRace ==
  /\ users = AllUsers
  /\ providerUsers = InitProviderUsers
  /\ providerLocations = InitProviderLocations
  /\ services = InitServices
  /\ bookings = <<>>
  /\ bookingItems = {}
  /\ nextId = 1
  /\ calls = [c \in Clients \cup Writers |->
                IF c \in Clients THEN IdleCall ELSE IdleWrite]
  /\ sinkLog = <<>>
  /\ resp = NoResp

NextRace ==
  \/ \E c \in Clients, dto \in RaceDtos :
       nextId <= MaxRacedBookings /\ CreateBookingValidate(c, dto)
  \/ \E c \in Clients : TxCreateBooking(c)
  \/ \E c \in Clients, i \in 1..1 : TxCreateItem(c, i)
  \/ \E c \in Clients : TxCommit(c)
  \/ \E c \in Clients : Notify(c, TRUE)
  \/ \E w \in Writers, id \in 1..MaxRacedBookings, u \in {"u1", "u3"},
        dto \in RaceStatusDtos :
       UpdateBookingStatusRead(w, id, u, dto)
  \/ \E w \in Writers, id \in 1..MaxRacedBookings : CancelBookingRead(w, id, "u4")
  \/ \E w \in Writers : CheckMember(w)
  \/ \E w \in Writers : WriteStatus(w)

SpecRace == InitRace /\ [][NextRace]_vars

(***************************************************************************)
(* removeTeamMember statement by statement: the requester's owner row, the *)
(* target's row, the count of active owners when the target is an owner,   *)
(* and the deactivating update.  No transaction holds them together, so    *)
(* two calls in flight interleave at these statements.  RemoveTeamMember   *)
(* above is the call whose statements run back to back.                    *)
(***************************************************************************)
Removers == {"r1", "r2"}

NoMember == [id |-> None, isOwner |-> FALSE]

IdleRemove == [pc |-> "idle", providerId |-> None, userId |-> None,
               requestingUserId |-> None, teamMember |-> NoMember, code |-> 0]

RemoveReturned(r, code) ==
  /\ calls' = [calls EXCEPT ![r].pc = "done", ![r].code = code]
  /\ resp' = Reply("removeTeamMember", code)

RemoveLeavesRows ==
  UNCHANGED <<users, providerUsers, providerLocations, services,
              bookings, bookingItems, nextId, sinkLog>>

\* the requester looked up among the active owners
RemoveCheckRequester(r, providerId, userId, requestingUserId) ==
  /\ calls[r].pc = "idle"
  /\ IF FindActiveOwner(providerId, requestingUserId) = {}
     THEN /\ calls' = [calls EXCEPT ![r] =
                 [IdleRemove EXCEPT !.pc = "done", !.providerId = providerId,
                                    !.userId = userId,
                                    !.requestingUserId = requestingUserId,
                                    !.code = 403]]
          /\ resp' = Reply("removeTeamMember", 403)
     ELSE /\ calls' = [calls EXCEPT ![r] =
                 [IdleRemove EXCEPT !.pc = "find", !.providerId = providerId,
                                    !.userId = userId,
                                    !.requestingUserId = requestingUserId]]
          /\ resp' = NoResp
  /\ RemoveLeavesRows

\* prisma.providerUser.findFirst({ where: { providerId, userId } })
RemoveFindMember(r) ==
  /\ calls[r].pc = "find"
  /\ LET teamMember == FindProviderUser(calls[r].providerId, calls[r].userId)
     IN  IF teamMember = {}
         THEN RemoveReturned(r, 404)
         ELSE /\ \E pu \in teamMember :
                   calls' = [calls EXCEPT
                     ![r].pc = IF pu.isOwner THEN "count" ELSE "write",
                     ![r].teamMember = [id |-> pu.id, isOwner |-> pu.isOwner]]
              /\ resp' = NoResp
  /\ RemoveLeavesRows

\* the count of active owners, taken when the target is an owner
RemoveCountOwners(r) ==
  /\ calls[r].pc = "count"
  /\ IF CountActiveOwners(calls[r].providerId) <= 1
     THEN RemoveReturned(r, 403)
     ELSE calls' = [calls EXCEPT ![r].pc = "write"] /\ resp' = NoResp
  /\ RemoveLeavesRows

\* prisma.providerUser.update({ where: { id: teamMember.id }, data: { isActive: false } })
RemoveDeactivate(r) ==
  /\ calls[r].pc = "write"
  /\ providerUsers' =
       { IF pu.id = calls[r].teamMember.id
         THEN [pu EXCEPT !.isActive = FALSE] ELSE pu : pu \in providerUsers }
  /\ RemoveReturned(r, 200)
  /\ UNCHANGED <<users, providerLocations, services,
                 bookings, bookingItems, nextId, sinkLog>>

\* the owner u1 brings the former owner u4 back as a second active owner
SecondOwnerDtos == {[userId |-> "u4", isOwner |-> TRUE]}

InitTeamRace ==
  /\ users = AllUsers
  /\ providerUsers = InitProviderUsers
  /\ providerLocations = InitProviderLocations
  /\ services = InitServices
  /\ bookings = <<>>
  /\ bookingItems = {}
  /\ nextId = 1
  /\ calls = [c \in Clients \cup Removers |->
                IF c \in Clients THEN IdleCall ELSE IdleRemove]
  /\ sinkLog = <<>>
  /\ resp = NoResp

NextTeamRace ==
  \/ \E dto \in SecondOwnerDtos : AddTeamMember("p1", dto, "u1")
  \/ \E r \in Removers, u \in {"u1", "u2", "u4"}, q \in {"u1", "u4"} :
       RemoveCheckRequester(r, "p1", u, q)
  \/ \E r \in Removers : RemoveFindMember(r)
  \/ \E r \in Removers : RemoveCountOwners(r)
  \/ \E r \in Removers : RemoveDeactivate(r)

SpecTeamRace == InitTeamRace /\ [][NextTeamRace]_vars

(***************************************************************************)
(* Properties.                                                             *)
(***************************************************************************)
RECURSIVE SumTotals(_)
SumTotals(S) ==
  IF S = {} THEN 0
  ELSE LET it == CHOOSE x \in S : TRUE IN it.total + SumTotals(S \ {it})

RECURSIVE SumSeq(_)
SumSeq(q) == IF q = <<>> THEN 0 ELSE q[1] + SumSeq(Tail(q))

ReadOps == {"getBookingById", "list", "listPaginated"}

\* C1: every booking a read returns comes with all of its line items: the
\* items returned with it are not empty and their totals add up to its subtotal.
C1_ReadsReturnAllItems ==
  (resp.op \in ReadOps /\ resp.code = 200) =>
    \A b \in resp.rows :
      LET its == {it \in resp.items : it.bookingId = b.id}
      IN  its # {} /\ SumTotals(its) = b.subtotal

\* C2: when an item insert fails after the booking row was written in the
\* transaction, createBooking fails and neither the row nor any item of it is
\* readable; a booking id that is neither committed nor in flight never
\* becomes readable later.
C2_ItemFailureLeavesNothing ==
  [][/\ \A c \in Clients :
          (calls[c].pc = "items" /\ calls[c].pending # {} /\ calls'[c].pc = "idle")
            => /\ resp'.op = "createBooking" /\ resp'.code = 500
               /\ calls[c].row.id \notin DOMAIN bookings'
               /\ \A it \in bookingItems' : it.bookingId # calls[c].row.id
     /\ \A id \in 1..(nextId - 1) :
          (id \notin DOMAIN bookings /\ \A c \in Clients : calls[c].row.id # id)
            => /\ id \notin DOMAIN bookings'
               /\ \A it \in bookingItems' : it.bookingId # id]_vars

\* an item insert failed: the id was handed out, the call ended in an error
\* and no row carries the id
C2_Witness ==
  /\ resp.op = "createBooking" /\ resp.code = 500
  /\ nextId > 1
  /\ (nextId - 1) \notin DOMAIN bookings
  /\ \A it \in bookingItems : it.bookingId # nextId - 1

\* C3: every booking has exactly one of customerId and guest info, and
\* isGuestBooking is true exactly when the guest info is the one present.
C3_ExactlyOneParty ==
  \A id \in DOMAIN bookings :
    /\ (bookings[id].customerId # None) # (bookings[id].guestEmail # None)
    /\ bookings[id].isGuestBooking = (bookings[id].guestEmail # None)

\* C4: for services priced p1..pn, subtotal = p1+...+pn, taxAmount is
\* subtotal * 0.125 rounded to the cent, and totalAmount = subtotal + taxAmount.
C4_PricingInvariant ==
  \A c \in Clients :
    calls[c].pc = "items" =>
      LET sum == SumSeq([i \in DOMAIN calls[c].found |-> calls[c].found[i].basePrice])
          row == calls[c].row
      IN  /\ row.subtotal = sum
          /\ row.taxAmount = (sum * 125 + 500) \div 1000
          /\ row.totalAmount = row.subtotal + row.taxAmount

\* the owning customer or an active team member of the booking's provider
MayCancel(id, a) ==
  \/ bookings[id].customerId = a
  \/ \E pu \in providerUsers :
       pu.providerId = bookings[id].providerId /\ pu.userId = a /\ pu.isActive

\* C5: cancel by a permitted actor answers 400 and leaves every row as it was
\* when the status is COMPLETED or CANCELLED, and otherwise succeeds and makes
\* the status CANCELLED.
C5_CancelRespectsTerminal ==
  [][\A id \in DOMAIN bookings, a \in AllUsers :
       (resp'.op = "cancel" /\ MayCancel(id, a) /\ CancelBooking(id, a))
         => IF bookings[id].status \in {"COMPLETED", "CANCELLED"}
            THEN resp'.code = 400 /\ bookings' = bookings /\ bookingItems' = bookingItems
            ELSE resp'.code = 200 /\ bookings'[id].status = "CANCELLED"]_vars

\* a cancel was refused on a completed booking
C5_Witness ==
  /\ resp.op = "cancel" /\ resp.code = 400
  /\ \A id \in 1..MaxLifecycleBookings :
       id \in DOMAIN bookings /\ bookings[id].status = "COMPLETED"

\* C6: a booking whose status is COMPLETED, CANCELLED or NO_SHOW keeps that
\* status in every later state.
C6_TerminalStatusIsFinal ==
  [][\A id \in DOMAIN bookings :
       bookings[id].status \in {"COMPLETED", "CANCELLED", "NO_SHOW"}
         => bookings'[id].status = bookings[id].status]_vars

ActiveMembership(p, a) ==
  {pu \in providerUsers : pu.providerId = p /\ pu.userId = a /\ pu.isActive}

\* what a listing of provider p may show to actor a
VisibleTo(b, p, a) ==
  /\ b.providerId = p
  /\ \E pu \in ActiveMembership(p, a) :
       pu.isOwner \/ pu.canManageBookings \/ b.assignedUserId = a

ListingScoped(p, a) ==
  IF ActiveMembership(p, a) = {}
  THEN resp'.code = 403 /\ resp'.rows = {} /\ resp'.list = <<>>
  ELSE resp'.code = 200 /\ \A b \in resp'.rows : VisibleTo(b, p, a)

\* C7: a provider listing, paginated or not, shows actor a a booking of
\* provider p only if a is an active member of p and is owner, may manage
\* bookings or is the booking's assigned user; without an active membership
\* the answer is 403.  (Stated as: a step is scoped for (p, a), or it is not a
\* listing of p by a.)
C7_ListingIsScoped ==
  [][\A p \in Providers, a \in AllUsers :
       \/ ListingScoped(p, a)
       \/ /\ resp'.op = "listPaginated" =>
               \A dto \in ListingQueries : ~ GetProviderBookingsPaginated(p, a, dto)
          /\ resp'.op = "list" =>
               \A f \in ListingFilters : ~ GetProviderBookings(p, a, f)]_vars

\* a listing of p1 that showed only the bookings assigned to u3 while p1 has others
C7_Witness ==
  LET ofP1 == {id \in DOMAIN bookings : bookings[id].providerId = "p1"}
      own  == {id \in ofP1 : bookings[id].assignedUserId = "u3"}
  IN  /\ resp.op = "listPaginated" /\ resp.code = 200
      /\ resp.rows # {}
      /\ resp.total = Cardinality(own)
      /\ Cardinality(own) < Cardinality(ofP1)

\* C8: when the notification fails after the commit, createBooking still
\* answers with the created booking, and the booking and its items stay.
C8_NotificationFailureIsSwallowed ==
  [][\A c \in Clients :
       (calls[c].pc = "notify" /\ calls'[c].pc = "idle")
         => /\ resp'.op = "createBooking" /\ resp'.code = 201
            /\ resp'.rows = {calls[c].row}
            /\ calls[c].row.id \in DOMAIN bookings'
            /\ calls[c].items \subseteq bookingItems']_vars

\* an active membership of the booking's provider that is owner or may manage bookings
HasManageRight(id, a) ==
  \E pu \in ActiveMembership(bookings[id].providerId, a) :
    pu.isOwner \/ pu.canManageBookings

\* C9: setStatus and assign by an actor without an active membership that is
\* owner or may manage bookings answer 403 and change no booking.
C9_SetStatusAndAssignNeedRight ==
  [][\A id \in DOMAIN bookings, a \in AllUsers :
       ~ HasManageRight(id, a) =>
         /\ (resp'.op = "setStatus" /\ \E dto \in LifecycleStatusDtos :
                                         UpdateBookingStatus(id, a, dto))
              => resp'.code = 403 /\ bookings' = bookings
         /\ (resp'.op = "assign" /\ \E t \in AllUsers : AssignBookingToUser(id, t, a))
              => resp'.code = 403 /\ bookings' = bookings]_vars

\* a status change was refused
C9_Witness ==
  /\ resp.op = "setStatus" /\ resp.code = 403
  /\ bookings # <<>>

\* C10: assign by a permitted actor answers 400 and leaves the assignment when
\* the target has no active membership in the booking's provider, and sets
\* assignedUserId to the target when it has one.
C10_AssignChecksTarget ==
  [][\A id \in DOMAIN bookings, a \in AllUsers, t \in AllUsers :
       (resp'.op = "assign" /\ HasManageRight(id, a) /\ AssignBookingToUser(id, t, a))
         => IF ActiveMembership(bookings[id].providerId, t) = {}
            THEN resp'.code = 400 /\ bookings' = bookings
            ELSE resp'.code = 200 /\ bookings'[id].assignedUserId = t]_vars

\* an assignment was refused although every booking addressed exists
C10_Witness ==
  /\ resp.op = "assign" /\ resp.code = 400
  /\ \A id \in 1..MaxLifecycleBookings : id \in DOMAIN bookings

\* C11: reading a guest booking by id with an email that differs from the
\* stored guest email is denied with 403; with the stored email, or with no
\* email, the booking is returned.
C11_GuestReadChecksEmail ==
  [][\A id \in DOMAIN bookings, email \in {None} \cup GuestEmails :
       (/\ resp'.op = "getBookingById"
        /\ bookings[id].isGuestBooking
        /\ GetBookingById(id, email))
         => IF email # None /\ email # bookings[id].guestEmail
            THEN resp'.code = 403 /\ resp'.rows = {}
            ELSE resp'.code = 200 /\ resp'.rows = {bookings[id]}]_vars

\* a read of a guest booking was denied
C11_Witness ==
  /\ resp.op = "getBookingById" /\ resp.code = 403
  /\ \E id \in DOMAIN bookings : bookings[id].isGuestBooking

WithUpdate(b, dto) ==
  [b EXCEPT !.startTime = IF dto.startTime # 0 THEN dto.startTime ELSE @,
            !.endTime = IF dto.endTime # 0 THEN dto.endTime ELSE @,
            !.customerNotes = IF dto.customerNotes # None THEN dto.customerNotes ELSE @,
            !.assignedUserId = IF dto.assignedUserId # None THEN dto.assignedUserId ELSE @]

\* C13: updateBooking by the booking's customer answers 400 and leaves every
\* booking as it was when the status is not PENDING or CONFIRMED, and is
\* applied when the status is PENDING or CONFIRMED.
C13_CustomerUpdateNeedsOpenStatus ==
  [][\A id \in DOMAIN bookings, dto \in BookingUpdates :
       (/\ resp'.op = "update"
        /\ bookings[id].customerId # None
        /\ UpdateBooking(id, bookings[id].customerId, dto))
         => IF bookings[id].status \in {"PENDING", "CONFIRMED"}
            THEN resp'.code = 200 /\ bookings'[id] = WithUpdate(bookings[id], dto)
            ELSE resp'.code = 400 /\ bookings' = bookings]_vars

\* an update of a completed booking was refused to its customer
C13_Witness ==
  /\ resp.op = "update" /\ resp.code = 400
  /\ \E id \in DOMAIN bookings :
       bookings[id].customerId = "u4" /\ bookings[id].status = "COMPLETED"

\* the active services of provider p among the requested ids
ResolvedServices(ids, p) ==
  {s \in DOMAIN services :
     (\E i \in DOMAIN ids : ids[i] = s) /\ services[s].providerId = p /\ services[s].isActive}

\* one of the creation checks of the request fails
CreationCheckFails(dto) ==
  \/ dto.customerId # None /\ dto.customerId \notin users
  \/ ~ \E pl \in providerLocations :
         pl.providerId = dto.providerId /\ pl.locationId = dto.locationId /\ pl.isActive
  \/ dto.assignedUserId # None /\ ActiveMembership(dto.providerId, dto.assignedUserId) = {}
  \/ /\ dto.providerUserId # None
     /\ ~ \E pu \in providerUsers :
            pu.id = dto.providerUserId /\ pu.providerId = dto.providerId
  \/ Cardinality(ResolvedServices(dto.serviceIds, dto.providerId)) # Len(dto.serviceIds)

\* C14: when a creation check fails (unknown customer, no active location
\* link, assignee not an active member, membership of another provider, or a
\* count of resolved services that differs from the count of requested ids),
\* createBooking answers 400, writes no booking and no item, and notifies
\* nobody.  (Stated as: a step answers so, or it is not the start of
\* createBooking on a request with a failing check.)
C14_FailedCheckCreatesNothing ==
  [][\A c \in Clients :
       \/ /\ resp'.op = "createBooking" /\ resp'.code = 400
          /\ calls'[c] = IdleCall
          /\ UNCHANGED <<bookings, bookingItems, nextId, sinkLog>>
       \/ calls[c].pc # "idle"
       \/ resp'.op \notin {"createBooking", "none"}
       \/ \A dto \in CreateDtos :
            ~ (CreationCheckFails(dto) /\ CreateBookingValidate(c, dto))]_vars

\* a request was refused for its services and left nothing behind
C14_Witness ==
  /\ resp.op = "createBooking" /\ resp.code = 400 /\ resp.error = "services"
  /\ bookings = <<>> /\ bookingItems = {} /\ sinkLog = <<>>

\* how many bookings page p of l holds when the result set has n of them
PageLength(n, p, l) ==
  IF n <= (p - 1) * l THEN 0
  ELSE IF n - (p - 1) * l < l THEN n - (p - 1) * l ELSE l

\* C15: for page p and limit l the customer and the provider listing return
\* elements (p-1)*l+1 .. p*l of the filtered, ordered result set together with
\* total, the size of that set, and totalPages = ceil(total / l): the page
\* holds exactly the bookings that a set of total bookings has at those places.
C15_PageIsSliceOfTotal ==
  (resp.op \in {"listPaginated", "listMine"} /\ resp.code = 200 /\ resp.limit > 0) =>
    /\ Len(resp.list) = PageLength(resp.total, resp.page, resp.limit)
    /\ \A i, j \in DOMAIN resp.list : i # j => resp.list[i] # resp.list[j]
    /\ resp.totalPages * resp.limit >= resp.total
    /\ (resp.totalPages - 1) * resp.limit < resp.total \/ resp.total = 0

\* the start time of a booking of the response
StartOf(id) == (CHOOSE b \in resp.rows : b.id = id).startTime

\* C16: the provider listing and the customer's own listing are ascending by
\* start time, the guest lookup by email is descending.
C16_ListingOrder ==
  resp.code = 200 =>
    /\ resp.op \in {"listPaginated", "listMine"} =>
         \A i, j \in DOMAIN resp.list : i < j => StartOf(resp.list[i]) <= StartOf(resp.list[j])
    /\ resp.op = "listGuest" =>
         \A i, j \in DOMAIN resp.list : i < j => StartOf(resp.list[i]) >= StartOf(resp.list[j])

\* C17: an operation addressed to a booking id that does not exist (update,
\* setStatus, assign, cancel) answers 404 and changes no state.
C17_MissingBookingIs404 ==
  [][\A id \in 1..MaxLifecycleBookings, a \in AllUsers :
       (/\ id \notin DOMAIN bookings
        /\ \/ resp'.op = "assign" /\ \E t \in AllUsers : AssignBookingToUser(id, t, a)
           \/ resp'.op = "setStatus" /\ \E dto \in LifecycleStatusDtos :
                                          UpdateBookingStatus(id, a, dto)
           \/ resp'.op = "cancel" /\ CancelBooking(id, a)
           \/ resp'.op = "update" /\ \E dto \in LifecycleUpdates : UpdateBooking(id, a, dto))
         => /\ resp'.code = 404
            /\ UNCHANGED <<users, providerUsers, providerLocations, services,
                           bookings, bookingItems, nextId, calls, sinkLog>>]_vars

HasActiveOwner(providerId) ==
  \E pu \in providerUsers :
    pu.providerId = providerId /\ pu.isOwner /\ pu.isActive

\* C18: no team-membership operation (addTeamMember, updateProviderUser,
\* removeTeamMember, removeUserFromProvider), whoever calls it, takes a
\* provider that has an active owner membership to a state where no
\* membership of it has isOwner and isActive both true.
C18_ProviderKeepsActiveOwner ==
  [][\A p \in Providers : HasActiveOwner(p) => HasActiveOwner(p)']_vars

\* C19: every stored booking has endTime strictly after startTime, whatever
\* createBooking and the updateBooking calls (changing startTime, endTime or
\* both) have written.
C19_EndAfterStart ==
  \A id \in DOMAIN bookings : bookings[id].endTime > bookings[id].startTime

\* C20: no step of create, update, assign, setStatus or cancel removes a
\* committed booking row or any of its items, so a booking id once created
\* stays readable; a cancel that succeeds leaves the row present with status
\* CANCELLED.
C20_NoBookingIsRemoved ==
  [][/\ \A id \in DOMAIN bookings : id \in DOMAIN bookings'
     /\ bookingItems \subseteq bookingItems'
     /\ \A id \in DOMAIN bookings, a \in AllUsers :
          (resp'.op = "cancel" /\ resp'.code = 200 /\ CancelBooking(id, a))
            => /\ id \in DOMAIN bookings'
               /\ bookings'[id].status = "CANCELLED"
               /\ ItemsOf(id) # {}]_vars

\* a cancel succeeded and the booking is still stored, cancelled, with its items
C20_Witness ==
  /\ resp.op = "cancel" /\ resp.code = 200
  /\ \E id \in DOMAIN bookings :
       /\ bookings[id].status = "CANCELLED"
       /\ bookings[id] \in resp.rows
       /\ ItemsOf(id) # {}
       /\ ItemsOf(id) = resp.items

\* C21: once a booking is committed, its items (serviceId, unitPrice, total)
\* and its subtotal, taxAmount and totalAmount stay as they are under every
\* later update, assign, setStatus and cancel, and under every later change
\* of a service's basePrice in the catalog.
C21_AmountsAndItemsAreFrozen ==
  [][\A id \in DOMAIN bookings :
       /\ id \in DOMAIN bookings'
       /\ bookings'[id].subtotal = bookings[id].subtotal
       /\ bookings'[id].taxAmount = bookings[id].taxAmount
       /\ bookings'[id].totalAmount = bookings[id].totalAmount
       /\ {it \in bookingItems' : it.bookingId = id} = ItemsOf(id)]_vars

\* the catalog price of a booked service was changed, and the booking, since
\* cancelled, still holds the price it was booked at
C21_Witness ==
  \E id \in DOMAIN bookings, it \in bookingItems :
    /\ it.bookingId = id
    /\ it.unitPrice # services[it.serviceId].basePrice
    /\ bookings[id].status = "CANCELLED"
    /\ bookings[id].assignedUserId = "u3"
    /\ bookings[id].startTime = 3

\* the items a createBooking must have written for the service ids of its
\* request: one per id, priced at the basePrice the call read
OneItemPerService(id, serviceIds, found, items) ==
  /\ Cardinality(items) = Len(serviceIds)
  /\ \A i \in DOMAIN serviceIds :
       \E j \in DOMAIN found :
         /\ found[j].id = serviceIds[i]
         /\ [bookingId |-> id, serviceId |-> serviceIds[i],
             unitPrice |-> found[j].basePrice,
             total |-> found[j].basePrice] \in items

\* C22: a createBooking that succeeds persists, and returns, a booking with
\* status PENDING and exactly one item per requested service id, each with
\* unitPrice and total equal to the service's basePrice, and the booking's
\* subtotal is the sum of its items' totals.
C22_CreatedBookingAndItems ==
  [][\A c \in Clients :
       /\ (calls[c].pc = "items" /\ calls'[c].pc = "notify")
            => LET id == calls[c].row.id
               IN  /\ id \in DOMAIN bookings'
                   /\ bookings'[id] = calls[c].row
                   /\ bookings'[id].status = "PENDING"
                   /\ {it \in bookingItems' : it.bookingId = id} = calls[c].items
                   /\ OneItemPerService(id, calls[c].dto.serviceIds,
                                        calls[c].found, calls[c].items)
                   /\ \A it \in calls[c].items :
                        it.unitPrice = services[it.serviceId].basePrice
                   /\ bookings'[id].subtotal = SumTotals(calls[c].items)
       /\ (calls[c].pc = "notify" /\ resp'.op = "createBooking" /\ resp'.code = 201)
            => /\ resp'.rows = {calls[c].row}
               /\ resp'.items = calls[c].items
               /\ calls[c].row.status = "PENDING"
               /\ bookings'[calls[c].row.id] = calls[c].row
               /\ ItemsOf(calls[c].row.id) = calls[c].items]_vars

\* a booking of two services was created and returned with its two items
C22_Witness ==
  /\ resp.op = "createBooking" /\ resp.code = 201
  /\ Cardinality(resp.items) = 2
  /\ \E b \in resp.rows :
       /\ b.id \in DOMAIN bookings
       /\ bookings[b.id].status = "PENDING"
       /\ ItemsOf(b.id) = resp.items
       /\ b.subtotal = 230000

\* C23: the sink is called with a booking's id only when that booking and
\* all its items are committed, it receives the id exactly once for each
\* createBooking that succeeds, and a createBooking that failed its checks
\* or rolled back never reaches it.
C23_SinkAfterCommitOnce ==
  [][/\ \A c \in Clients :
          (calls[c].pc = "notify" /\ calls'[c].pc = "idle")
            => /\ calls[c].row.id \in DOMAIN bookings
               /\ ItemsOf(calls[c].row.id) = calls[c].items
               /\ Cardinality(calls[c].items) = Len(calls[c].dto.serviceIds)
     /\ (resp'.op = "createBooking" /\ resp'.code = 201)
          => \E c \in Clients :
               /\ calls[c].pc = "notify"
               /\ resp'.rows = {calls[c].row}
               /\ calls[c].row.id \notin Range(sinkLog)
               /\ sinkLog' = Append(sinkLog, calls[c].row.id)
     /\ (sinkLog' # sinkLog)
          => /\ resp'.op = "createBooking" /\ resp'.code = 201
             /\ \E c \in Clients :
                  /\ calls[c].pc = "notify"
                  /\ sinkLog' = Append(sinkLog, calls[c].row.id)]_vars

\* the first createBooking rolled back after its row was written, the second
\* succeeded: the sink has received the second id, once, and nothing else
C23_Witness ==
  /\ resp.op = "createBooking" /\ resp.code = 201
  /\ DOMAIN bookings = {2}
  /\ sinkLog = <<2>>

\* C24: setStatus by an actor with the right to manage the booking succeeds
\* and stores the requested status, from every current status and for every
\* requested status other than the current one, whether or not the move is
\* an edge of the status diagram.
C24_SetStatusIgnoresAdjacency ==
  [][\A id \in DOMAIN bookings, a \in AllUsers, dto \in LifecycleStatusDtos :
       \/ resp'.op # "setStatus"
       \/ resp'.code = 200 /\ bookings'[id].status = dto.status
       \/ dto.status = bookings[id].status
       \/ ~ HasManageRight(id, a)
       \/ ~ UpdateBookingStatus(id, a, dto)]_vars

\* a booking that had been confirmed (the note was left then) was set back
\* to PENDING, a move along no edge of the diagram
C24_Witness ==
  /\ resp.op = "setStatus" /\ resp.code = 200
  /\ \E id \in DOMAIN bookings :
       /\ bookings[id].status = "PENDING"
       /\ bookings[id].providerNotes = "called"
       /\ bookings[id] \in resp.rows

\* the row with the four fields an update may write taken from row `to`
WithEditable(b, to) ==
  [b EXCEPT !.startTime = to.startTime, !.endTime = to.endTime,
            !.customerNotes = to.customerNotes,
            !.assignedUserId = to.assignedUserId]

RaceBase(id) ==
  BookingRow(id, CHOOSE dto \in RaceDtos : TRUE, StoredPricing(<<150000>>))

\* both calls passed their checks and wrote booking `id`
BothWrote(id) ==
  \A w \in Writers :
    calls[w].pc = "done" /\ calls[w].code = 200 /\ calls[w].id = id

\* C26: when two status-changing calls (setStatus, cancel) on one booking
\* both pass their checks and write, the row is what the two writes give
\* when applied one after the other in one of the two orders: its status is
\* the one written last, and every field that neither call writes is as it
\* was.
C26_StatusWritesSerialize ==
  \A id \in DOMAIN bookings :
    BothWrote(id) =>
      \E first \in Writers, last \in Writers :
        /\ first # last
        /\ bookings[id] =
             StatusWritten(StatusWritten(RaceBase(id), calls[first].dto),
                           calls[last].dto)
        /\ bookings[id].status = calls[last].dto.status

\* a cancel and a setStatus to COMPLETED both wrote: the cancel had checked
\* the status before the completion and wrote after it, and the note of the
\* setStatus is kept
C26_Witness ==
  /\ BothWrote(1)
  /\ calls["w1"].op = "setStatus" /\ calls["w1"].dto.status = "COMPLETED"
  /\ calls["w2"].op = "cancel"
  /\ bookings[1].status = "CANCELLED"
  /\ bookings[1].providerNotes = "called"

\* C27: under every interleaving of a cancel with a setStatus on the same
\* booking, the update of the cancel never finds the status COMPLETED: a
\* booking that has been completed is not turned into CANCELLED by a cancel
\* whose status check ran before the completion.
C27_CancelNeverOverwritesCompleted ==
  [][\A w \in Writers :
       (/\ calls[w].op = "cancel"
        /\ calls[w].pc = "write"
        /\ calls'[w].pc = "done")
         => bookings[calls[w].id].status # "COMPLETED"]_vars

\* C28: whenever createBooking, assign or updateBooking stores a user as a
\* booking's assignedUserId, that user holds an active membership of the
\* booking's provider at that moment.
C28_AssigneeIsActiveMember ==
  [][\A id \in DOMAIN bookings' :
       LET new == bookings'[id].assignedUserId
           old == IF id \in DOMAIN bookings
                  THEN bookings[id].assignedUserId ELSE None
       IN  (new # None /\ new # old)
             => ActiveMembership(bookings'[id].providerId, new) # {}]_vars

\* C29: at the moment createBooking commits a booking, its (provider,
\* location) link is active and every service of its items is an active
\* service of the provider, whatever service update or location removal ran
\* between the validating reads and the transaction.
C29_ReferencesHoldAtCommit ==
  [][\A c \in Clients :
       (calls[c].pc = "items" /\ calls'[c].pc = "notify")
         => /\ FindActiveProviderLocation(calls[c].row.providerId,
                                          calls[c].row.locationId) # {}
            /\ \A it \in calls[c].items :
                 /\ services[it.serviceId].providerId = calls[c].row.providerId
                 /\ services[it.serviceId].isActive]_vars

\* the two calls each removed the other's requester
RemovedEachOther ==
  /\ \A r \in Removers : calls[r].pc = "done" /\ calls[r].code = 200
  /\ \E r \in Removers, q \in Removers :
       /\ r # q
       /\ calls[r].providerId = calls[q].providerId
       /\ calls[r].userId = calls[q].requestingUserId
       /\ calls[q].userId = calls[r].requestingUserId

\* C30: when two active owners of one provider call removeTeamMember at the
\* same time, each on the other, the two calls do not both succeed, and
\* under every interleaving of their counts and their updates the provider
\* keeps an active owner.
C30_ConcurrentRemovalsKeepOwner ==
  /\ ~ RemovedEachOther
  /\ \A p \in Providers : HasActiveOwner(p)
====
